---- MODULE Spec2Model ----
(***************************************************************************)
(* The asynchronous export job of ai_analyst (ai.analyst.boss.export.job): *)
(* its record, the action_process / _run_export state machine, the cron    *)
(* sweep and the two HTTP endpoints that read a job.                       *)
(*                                                                         *)
(* Two processes run handlers: "http" (a request worker: the status and    *)
(* download endpoints, the boss_open_query tool, a direct action_process   *)
(* call) and "cron" (the scheduler thread running                          *)
(* cron_process_queued_exports as the system identity).  ORM writes of a   *)
(* process stay in its transaction (pend) until the process commits: at    *)
(* `self.env.cr.commit()` after a page, or when its handler returns.  A    *)
(* process that is killed loses its uncommitted writes and its Python      *)
(* locals (offset, output buffer).  The model is of production mode        *)
(* (registry.in_test_mode() is false).                                     *)
(*                                                                         *)
(* Further parts, each with its own specification over the same variables: *)
(* the plan validator, the plan normalizer and the boss_open_query tool    *)
(* (PlanSpec); the gateway's tiered planning loop with the query cache,    *)
(* for one worker (GwSpec) and for two concurrent workers (CacheSpec);     *)
(* the dashboard's run_widget behind its semaphore (WidgetSpec).           *)
(***************************************************************************)
EXTENDS Integers, Sequences, FiniteSets, TLC

\* ------------------------------------------------------------- bounds
MaxHalfPages == 4
MaxCrashes == 1
GroupSize == 2
MaxHops == 5
MaxTicks == 1
MaxRequests == 103
SmallTotal == 3
LargeTotal == 102500
MidTotal == 20000

\* ------------------------------------------------- program constants
EXPORT_PAGE_LIMIT == 1000
CRON_LIMIT == 5
MAX_DEPTH == 5
MAX_FIELDS == 50
MAX_AGGS == 20
MAX_GROUP_BY == 10
CURSOR_TTL_SECONDS == 3600
MAX_PAGE_LIMIT == 1000
MAX_OFFSET == 100000
INLINE_MAX_ROWS == 500
ASYNC_THRESHOLD_ROWS == 10000
PAGINATED_MAX_TOTAL == 50000

\* ------------------------------------------------------------ universe
Users == {"alice", "bob"}
SystemUser == "system"
Identities == Users \cup {SystemUser}
Workers == {"http", "cron"}
\* Runs on different jobs touch different rows: one job is followed.
JobIds == {1}
NewestJob == CHOOSE j \in JobIds : \A i \in JobIds : i <= j
PlanKinds == {"list", "agg"}
RowChoices == {500 * k : k \in 0..MaxHalfPages}

NoJob == 0
NoMsg == "False"
NoBlob == <<>>
Terminal == {"completed", "failed"}

VARIABLES
    store,      \* the data set: records in all, records each user may read
    jobs,       \* committed ai.analyst.boss.export.job rows, by id
    proc,       \* per process: position in its handler and its locals
    crashes,    \* processes killed so far
    resp,       \* the HTTP response returned by the step just taken
    query,      \* the store query issued by the step just taken
    walk,       \* the states a job's row moved through in the commit just made
    lastPage,   \* per job: offset of the page executed most recently
    overlap,    \* whether a handler was ever invoked while another one ran
    now,        \* the clock (datetime.utcnow().timestamp())
    call,       \* the synchronous service call made by the step just taken
    ret,        \* what that call returned or raised
    sess,       \* a caller paging through one plan: what it has received
    cache,      \* committed ai.analyst.query.cache rows
    gw,         \* per gateway worker: position in _run_universal_query, locals
    sem,        \* permits left in _WIDGET_SEMAPHORE
    widget      \* run_widget requests: how many wait, how many run, last answer

vars == <<store, jobs, proc, crashes, resp, query, walk, lastPage, overlap,
          now, call, ret, sess, cache, gw, sem, widget>>

NoResp == [kind |-> "none"]
NoQuery == [kind |-> "none"]
NoExc == "none"
NoWalk == <<>>
NoCall == [op |-> "none"]
NoRet == [kind |-> "none"]
NoSess == [open |-> FALSE]

\* threading.BoundedSemaphore(_MAX_PARALLEL_WIDGET_RUNS)
_MAX_PARALLEL_WIDGET_RUNS == 10

\* Workers serving gateway requests; a worker between two requests.
GwWorkers == {"w1", "w2"}
IdleGw == [pc |-> "idle"]
NoGw == [req |-> [t \in GwWorkers |-> IdleGw], started |-> 0]
NoRows == {}
NoWidget == [waiting |-> 0, running |-> 0, answer |-> "none"]

Min(a, b) == IF a <= b THEN a ELSE b
Max(a, b) == IF a >= b THEN a ELSE b

\* ------------------------------------------------------------- store
\* Records the identity may read: record rules restrict a user, the
\* system identity (superuser) bypasses them.
Visible(id) == IF id = SystemUser THEN store.all ELSE store.vis[id]

\* model.search_count(domain) under an identity.
search_count(id) == Visible(id)

\* Rows the plan yields in all under an identity: one per record for a
\* projected list, one per group for a grouped aggregation.
GroupsOf(n) == (n + GroupSize - 1) \div GroupSize
PlanRows(kind, id) == IF kind = "list" THEN Visible(id) ELSE GroupsOf(Visible(id))

\* execute_page: number of rows of the page at `offset` with `limit`.
execute_page(kind, id, limit, offset) ==
    Min(limit, Max(0, PlanRows(kind, id) - offset))

\* ------------------------------------------------------ export job row
job_token(j) == <<"token", j>>

AbsentJob ==
    [exists |-> FALSE, state |-> "queued", requested_by |-> SystemUser,
     query_plan |-> "list", total_rows |-> 0, processed_rows |-> 0,
     progress_percent |-> <<0, 1>>, csv_content |-> NoBlob,
     csv_filename |-> NoMsg, error_message |-> NoMsg, finished_at |-> FALSE]

\* Field defaults of the model plus the values BossOpenQueryTool.execute gives.
NewJob(u, kind) ==
    [AbsentJob EXCEPT !.exists = TRUE, !.state = "queued",
                      !.requested_by = u, !.query_plan = kind]

\* progress_percent is a float: kept as the exact fraction <<num, den>>.
PctLeq(a, b) == a[1] * b[2] <= b[1] * a[2]
PctIs100(a) == a[1] = 100 * a[2]

\* (mutant) the share still to do instead of the share done.
Pct_Remaining(offset, total) ==
    IF total <= 0 THEN <<100, 1>>
    ELSE IF offset >= total THEN <<0, 1>>
    ELSE <<(total - offset) * 100, total>>

\* pct = 100.0 if total <= 0 else min(99.0, offset / total * 100.0)
Pct(offset, total) ==
    IF total <= 0 THEN <<100, 1>>
    ELSE IF offset * 100 >= 99 * total THEN <<99, 1>>
    ELSE <<offset * 100, total>>

\* output.getvalue().encode('utf-8-sig') and base64.b64encode / b64decode
EncodeUtf8Sig(text) == <<"BOM", text>>
b64encode(bytes) == <<"b64", bytes>>
b64decode(blob) == blob[2]

\* ------------------------------------------------------------ processes
IdleProc ==
    [pc |-> "idle", kind |-> "none", user |-> SystemUser, todo |-> <<>>,
     job |-> NoJob, total |-> 0, offset |-> 0, output |-> <<>>,
     pend |-> <<>>]

\* pend is the sequence of uncommitted write() calls, each a function from
\* field names to values; a commit applies them in order.
ApplyWrite(row, w) ==
    [f \in DOMAIN row |-> IF f \in DOMAIN w THEN w[f] ELSE row[f]]

RECURSIVE ApplyWrites(_, _)
ApplyWrites(row, ws) ==
    IF ws = <<>> THEN row ELSE ApplyWrites(ApplyWrite(row, Head(ws)), Tail(ws))

RECURSIVE StatesWritten(_)
StatesWritten(ws) ==
    IF ws = <<>> THEN <<>>
    ELSE (IF "state" \in DOMAIN Head(ws) THEN <<Head(ws).state>> ELSE <<>>)
         \o StatesWritten(Tail(ws))

Init ==
    /\ \E n \in RowChoices, hidden \in {0, 500} :
          store = [all |-> n,
                   vis |-> [u \in Users |->
                              IF u = "bob" THEN Max(0, n - hidden) ELSE n]]
    /\ jobs = [j \in JobIds |-> AbsentJob]
    /\ proc = [w \in Workers |-> IdleProc]
    /\ crashes = 0
    /\ resp = NoResp
    /\ query = NoQuery
    /\ walk = NoWalk
    /\ lastPage = [j \in JobIds |-> -1]
    /\ overlap = FALSE
    /\ now = 0
    /\ call = NoCall
    /\ ret = NoRet
    /\ sess = NoSess
    /\ cache = NoRows
    /\ gw = NoGw
    /\ sem = _MAX_PARALLEL_WIDGET_RUNS
    /\ widget = NoWidget

\* ---------------------------------------------------------- job creation
\* BossOpenQueryTool.execute with mode async_export: the job is created.
CreateJob(u, kind) ==
    /\ proc["http"].pc = "idle"
    /\ \E j \in JobIds :
          /\ ~jobs[j].exists
          /\ \A i \in JobIds : i < j => jobs[i].exists
          /\ jobs' = [jobs EXCEPT ![j] = NewJob(u, kind)]
    /\ resp' = NoResp /\ query' = NoQuery /\ walk' = NoWalk
    /\ UNCHANGED <<call, ret, sess, store, proc, crashes, lastPage, overlap,
                   now, cache, gw, sem, widget>>

\* ------------------------------------------------------ action_process
\* (mutant) the guard forgets the failed state.
SkipsJob_OnlyCompleted(state) == state = "completed"

\* action_process: `if job.state in ('completed', 'failed'): continue`
SkipsJob(state) == state \in Terminal

\* The env identity `self.env[...]` carries inside _run_export: the one
\* that invoked action_process.
InvokerOf(p) == p.user

\* svc = self.env[service].with_user(self.requested_by)
ServiceUser(row) == row.requested_by

\* total = self.env[target_model].search_count(domain): the job's own env.
CountIdentity(p, row) == InvokerOf(p)

\* self.write({'state': 'processing', 'error_message': False})
StartWrite == [state |-> "processing", error_message |-> NoMsg]

\* self.write({'total_rows': total})
TotalWrite(total) == [total_rows |-> total]

\* self.write({'processed_rows': offset, 'progress_percent': pct})
ProgressWrite(offset, total) ==
    [processed_rows |-> offset, progress_percent |-> Pct(offset, total)]

\* (mutant) the loop resumes at the stored checkpoint.
FirstOffset_Checkpoint(row) == row.processed_rows

\* The offset the page loop starts from: `offset = 0`.
FirstOffset(row) == 0

\* The CSV text written so far: a header before the first page's rows.
CsvText(output) == IF output = <<>> THEN <<>> ELSE <<"header">> \o output

\* The final write of a run whose page loop ended.
FinalWrite(offset, output) ==
    [csv_content |-> b64encode(EncodeUtf8Sig(CsvText(output))),
     csv_filename |-> "boss_open_query.csv",
     state |-> "completed",
     progress_percent |-> <<100, 1>>,
     processed_rows |-> offset,
     finished_at |-> TRUE]

\* (mutant) the handler records no message.
HandlerWrite_NoMessage(msg) == [state |-> "failed", finished_at |-> TRUE]

\* except Exception as e: self.write({'state': 'failed', ...})
HandlerWrite(msg) ==
    [state |-> "failed", error_message |-> msg, finished_at |-> TRUE]

\* Messages of the exceptions a run can meet: the service's own
\* AccessError / ValidationError texts and an error raised by the store.
ValidateErrors ==
    {"boss_open_query requires AI Analyst Boss Open Query Access.",
     "Invalid target_model."}
StoreErrors == {"store error"}

\* boss_export_status's answer for a job it found.
StatusBody(j, row) ==
    [job_id |-> j, job_token |-> job_token(j), state |-> row.state,
     progress_percent |-> row.progress_percent,
     processed_rows |-> row.processed_rows, total_rows |-> row.total_rows,
     filename |-> row.csv_filename, error |-> row.error_message]

\* The process after the run on Head(todo) is over: the `for job in self`
\* loop goes on to the next job, or the handler returns.
AfterJob(p) ==
    IF Len(p.todo) > 1
    THEN [IdleProc EXCEPT !.pc = "check", !.kind = p.kind, !.user = p.user,
                          !.todo = Tail(p.todo)]
    ELSE IdleProc

\* What the handler returns then: the status endpoint answers with the row.
AfterResp(p, j, row) ==
    IF Len(p.todo) <= 1 /\ p.kind = "status"
    THEN [kind |-> "status", user |-> p.user, job |-> j, found |-> TRUE,
          body |-> StatusBody(j, row)]
    ELSE NoResp

\* The row after the process's pending writes and `ws` are committed.
Committed(row, p, ws) == ApplyWrites(row, p.pend \o ws)
WalkOf(j, row, p, ws) ==
    [job |-> j, states |-> <<row.state>> \o StatesWritten(p.pend \o ws)]

\* A store query of a run: what it is, for which job, under which
\* identity, at which offset, and the exception it raised (NoExc: none).
Query(kind, j, who, offset, exc) ==
    [kind |-> kind, job |-> j, as |-> who, offset |-> offset, raised |-> exc]

\* for job in self: the guard on the next job of the recordset.
Check(w) ==
    LET p == proc[w]
        j == Head(p.todo) IN
    /\ p.pc = "check"
    /\ IF SkipsJob(jobs[j].state)
       THEN /\ proc' = [proc EXCEPT ![w] = AfterJob(p)]
            /\ resp' = AfterResp(p, j, jobs[j])
       ELSE /\ proc' = [proc EXCEPT ![w].pc = "start", ![w].job = j]
            /\ resp' = NoResp
    /\ query' = NoQuery /\ walk' = NoWalk
    /\ UNCHANGED <<call, ret, sess, store, jobs, crashes, lastPage, overlap,
                   now, cache, gw, sem, widget>>

\* The except clause of _run_export, then the run is over.
Fail(w, p, msg) ==
    LET j == p.job
        ws == <<HandlerWrite(msg)>> IN
    /\ jobs' = [jobs EXCEPT ![j] = Committed(jobs[j], p, ws)]
    /\ walk' = WalkOf(j, jobs[j], p, ws)
    /\ proc' = [proc EXCEPT ![w] = AfterJob(p)]
    /\ resp' = AfterResp(p, j, jobs'[j])

\* _run_export up to the re-validation of the plan.
RunStart(w) ==
    LET p == proc[w]
        j == p.job
        p1 == [p EXCEPT !.pend = Append(p.pend, StartWrite)] IN
    /\ p.pc = "start"
    /\ \/ /\ proc' = [proc EXCEPT ![w] = [p1 EXCEPT !.pc = "count"]]
          /\ query' = Query("validate", j, ServiceUser(jobs[j]), 0, NoExc)
          /\ resp' = NoResp /\ walk' = NoWalk
          /\ UNCHANGED jobs
       \/ \E msg \in ValidateErrors :
             /\ query' = Query("validate", j, ServiceUser(jobs[j]), 0, msg)
             /\ Fail(w, p1, msg)
    /\ UNCHANGED <<call, ret, sess, store, crashes, lastPage, overlap,
                   now, cache, gw, sem, widget>>

\* total = ...search_count(domain); self.write({'total_rows': total})
RunCount(w) ==
    LET p == proc[w]
        j == p.job
        who == CountIdentity(p, jobs[j])
        total == search_count(who) IN
    /\ p.pc = "count"
    /\ \/ /\ query' = Query("count", j, who, 0, NoExc)
          /\ proc' = [proc EXCEPT ![w] =
                        [p EXCEPT !.pc = "page", !.total = total,
                                  !.offset = FirstOffset(jobs[j]),
                                  !.output = <<>>,
                                  !.pend = Append(p.pend, TotalWrite(total))]]
          /\ resp' = NoResp /\ walk' = NoWalk
          /\ UNCHANGED jobs
       \/ \E msg \in StoreErrors :
             /\ query' = Query("count", j, who, 0, msg)
             /\ Fail(w, p, msg)
    /\ UNCHANGED <<call, ret, sess, store, crashes, lastPage, overlap,
                   now, cache, gw, sem, widget>>

\* One turn of the page loop; an empty page ends it with the final write.
RunPage(w) ==
    LET p == proc[w]
        j == p.job
        who == ServiceUser(jobs[j])
        n == execute_page(jobs[j].query_plan, who, EXPORT_PAGE_LIMIT, p.offset)
        offset1 == p.offset + n IN
    /\ p.pc = "page"
    /\ lastPage' = [lastPage EXCEPT ![j] = p.offset]
    /\ \/ /\ n > 0
          /\ query' = Query("page", j, who, p.offset, NoExc)
          /\ LET ws == <<ProgressWrite(offset1, p.total)>> IN
             /\ jobs' = [jobs EXCEPT ![j] = Committed(jobs[j], p, ws)]
             /\ walk' = WalkOf(j, jobs[j], p, ws)
          /\ proc' = [proc EXCEPT ![w] =
                        [p EXCEPT !.offset = offset1, !.pend = <<>>,
                                  !.output = Append(p.output,
                                                [offset |-> p.offset, rows |-> n])]]
          /\ resp' = NoResp
       \/ /\ n = 0
          /\ query' = Query("page", j, who, p.offset, NoExc)
          /\ LET ws == <<FinalWrite(p.offset, p.output)>> IN
             /\ jobs' = [jobs EXCEPT ![j] = Committed(jobs[j], p, ws)]
             /\ walk' = WalkOf(j, jobs[j], p, ws)
          /\ proc' = [proc EXCEPT ![w] = AfterJob(p)]
          /\ resp' = AfterResp(p, j, jobs'[j])
       \/ \E msg \in StoreErrors :
             /\ query' = Query("page", j, who, p.offset, msg)
             /\ Fail(w, p, msg)
    /\ UNCHANGED <<call, ret, sess, store, crashes, overlap,
                   now, cache, gw, sem, widget>>

\* The process is killed: its transaction is rolled back, its locals lost.
Crash(w) ==
    /\ proc[w].pc # "idle"
    /\ crashes < MaxCrashes
    /\ crashes' = crashes + 1
    /\ proc' = [proc EXCEPT ![w] = IdleProc]
    /\ resp' = NoResp /\ query' = NoQuery /\ walk' = NoWalk
    /\ UNCHANGED <<call, ret, sess, store, jobs, lastPage, overlap,
                   now, cache, gw, sem, widget>>

\* ------------------------------------------------------------ invokers
Busy(w) == proc[w].pc # "idle"

\* Queued jobs, newest first (_order = 'create_date desc').
RECURSIVE QueuedFrom(_)
QueuedFrom(j) ==
    IF j < 1 THEN <<>>
    ELSE (IF jobs[j].exists /\ jobs[j].state = "queued" THEN <<j>> ELSE <<>>)
         \o QueuedFrom(j - 1)

SearchQueued(limit) ==
    LET all == QueuedFrom(NewestJob) IN SubSeq(all, 1, Min(limit, Len(all)))

\* cron_process_queued_exports, run by the scheduler as the system identity.
CronSweep ==
    LET found == SearchQueued(CRON_LIMIT) IN
    /\ proc["cron"].pc = "idle"
    /\ found # <<>>
    /\ proc' = [proc EXCEPT !["cron"] =
                  [IdleProc EXCEPT !.pc = "check", !.kind = "cron",
                                   !.user = SystemUser, !.todo = found]]
    /\ resp' = NoResp /\ query' = NoQuery /\ walk' = NoWalk
    /\ overlap' = (overlap \/ Busy("http"))
    /\ UNCHANGED <<call, ret, sess, store, jobs, crashes, lastPage,
                   now, cache, gw, sem, widget>>

\* job.action_process() called directly on an existing job.
DirectCall(id, j) ==
    /\ proc["http"].pc = "idle"
    /\ jobs[j].exists
    /\ proc' = [proc EXCEPT !["http"] =
                  [IdleProc EXCEPT !.pc = "check", !.kind = "direct",
                                   !.user = id, !.todo = <<j>>]]
    /\ resp' = NoResp /\ query' = NoQuery /\ walk' = NoWalk
    /\ overlap' = (overlap \/ Busy("cron"))
    /\ UNCHANGED <<call, ret, sess, store, jobs, crashes, lastPage,
                   now, cache, gw, sem, widget>>

\* (mutant) the domain forgets the requested_by term.
MatchesDomain_AnyUser(u, row) == row.exists

\* The search domain of both endpoints: the job, and requested_by = user.
MatchesDomain(u, row) == row.exists /\ row.requested_by = u

\* boss_export_status(job_id=..., job_token=...) called by user u; `ref`
\* is <<"id", j>>, <<"token", j>> or <<"none">>.
boss_export_status(u, ref) ==
    /\ proc["http"].pc = "idle"
    /\ query' = NoQuery /\ walk' = NoWalk
    /\ overlap' = (overlap \/ (/\ ref[1] # "none"
                                /\ MatchesDomain(u, jobs[ref[2]])
                                /\ jobs[ref[2]].state = "queued"
                                /\ Busy("cron")))
    /\ UNCHANGED <<call, ret, sess, store, jobs, crashes, lastPage,
                   now, cache, gw, sem, widget>>
    /\ IF ref[1] = "none"
       THEN /\ resp' = [kind |-> "status", user |-> u, job |-> NoJob,
                        found |-> FALSE,
                        body |-> [error |-> "Missing job_id or job_token."]]
            /\ UNCHANGED proc
       ELSE LET j == ref[2] IN
            IF ~MatchesDomain(u, jobs[j])
            THEN /\ resp' = [kind |-> "status", user |-> u, job |-> j,
                             found |-> FALSE,
                             body |-> [error |-> "Export job not found."]]
                 /\ UNCHANGED proc
            ELSE IF jobs[j].state = "queued"
            THEN /\ proc' = [proc EXCEPT !["http"] =
                               [IdleProc EXCEPT !.pc = "check",
                                                !.kind = "status",
                                                !.user = u, !.todo = <<j>>]]
                 /\ resp' = NoResp
            ELSE /\ resp' = [kind |-> "status", user |-> u, job |-> j,
                             found |-> TRUE, body |-> StatusBody(j, jobs[j])]
                 /\ UNCHANGED proc

\* boss_export_download(job_token=...) called by user u.
Downloadable(u, row) ==
    MatchesDomain(u, row) /\ row.state = "completed" /\ row.csv_content # NoBlob

boss_export_download(u, j) ==
    /\ proc["http"].pc = "idle"
    /\ resp' = IF Downloadable(u, jobs[j])
               THEN [kind |-> "download", user |-> u, job |-> j,
                     found |-> TRUE,
                     body |-> b64decode(jobs[j].csv_content)]
               ELSE [kind |-> "download", user |-> u, job |-> j,
                     found |-> FALSE, body |-> [error |-> "not_found"]]
    /\ query' = NoQuery /\ walk' = NoWalk
    /\ UNCHANGED <<call, ret, sess, store, jobs, proc, crashes, lastPage, overlap,
                   now, cache, gw, sem, widget>>

\* ====================================================================
\* Query plans: catalog, field paths, validator, normalizer, tool
\* ====================================================================
\* A string is the sequence of its pieces: a field name is one piece, "."
\* is a piece of its own, so 'partner_id.name' is <<"partner_id", ".", "name">>.
Dot == "."
NoPath == <<>>

\* str.split('.'): the segments between the dots ('' gives one empty segment).
RECURSIVE Split(_)
Split(s) ==
    IF s = <<>> THEN <<<<>>>>
    ELSE IF Head(s) = Dot THEN <<<<>>>> \o Split(Tail(s))
    ELSE LET rest == Split(Tail(s)) IN
         <<<<Head(s)>> \o Head(rest)>> \o Tail(rest)

\* str.replace('.', '_')
Replace(s) == [i \in 1..Len(s) |-> IF s[i] = Dot THEN "_" ELSE s[i]]

\* The name a segment spells ('' for the empty segment).
SegName(seg) == IF Len(seg) = 1 THEN seg[1] ELSE ""

\* ------------------------------------------------------- entity catalog
Models == {"sale.order", "res.partner"}
NoField == [type |-> "none", store |-> FALSE, comodel_name |-> "none"]
Stored(type) == [type |-> type, store |-> TRUE, comodel_name |-> "none"]
Computed(type) == [type |-> type, store |-> FALSE, comodel_name |-> "none"]
Many2one(comodel) == [type |-> "many2one", store |-> TRUE, comodel_name |-> comodel]

\* model._fields of the two entities the plans of the model are about.
ModelFields(model) ==
    IF model = "sale.order"
    THEN [name |-> Stored("char"), partner_id |-> Many2one("res.partner"),
          date_order |-> Stored("datetime"), company_id |-> Many2one("res.partner"),
          tag_ids |-> Stored("many2many"), margin |-> Computed("float")]
    ELSE [name |-> Stored("char"), parent_id |-> Many2one("res.partner"),
          display_name |-> Computed("char")]

\* current_model._fields.get(part)
FieldGet(model, part) ==
    IF part \in DOMAIN ModelFields(model) THEN ModelFields(model)[part] ELSE NoField

\* ------------------------------------------------------- field paths
Resolved(field) == [ok |-> TRUE, error |-> "none", field |-> field]
Unresolved(error) == [ok |-> FALSE, error |-> error, field |-> NoField]

\* The for loop of _resolve_field over the segments still to walk.
RECURSIVE ResolveParts(_, _)
ResolveParts(model, parts) ==
    LET field == FieldGet(model, SegName(Head(parts))) IN
    IF field = NoField THEN Unresolved("Field %s not found on %s")
    ELSE IF Len(parts) > 1
    THEN IF field.type # "many2one"
         THEN Unresolved("Only many2one traversal is allowed for %s")
         ELSE ResolveParts(field.comodel_name, Tail(parts))
    ELSE Resolved(field)

\* AiAnalystBossOpenQueryService._resolve_field
ResolveField(model, field_path) ==
    IF Len(Split(field_path)) > MAX_DEPTH
    THEN Unresolved("Field path depth exceeded for %s")
    ELSE ResolveParts(model, Split(field_path))

\* AiAnalystQueryPlanValidator._field_exists
RECURSIVE FieldExistsParts(_, _)
FieldExistsParts(model, parts) ==
    LET field == FieldGet(model, SegName(Head(parts))) IN
    IF field = NoField THEN FALSE
    ELSE IF Len(parts) > 1
    THEN IF field.type # "many2one" THEN FALSE
         ELSE FieldExistsParts(field.comodel_name, Tail(parts))
    ELSE TRUE

FieldExists(model, field_path) == FieldExistsParts(model, Split(field_path))

\* AiAnalystQueryPlanValidator._is_computed_field
RECURSIVE IsComputedParts(_, _)
IsComputedParts(model, parts) ==
    LET field == FieldGet(model, SegName(Head(parts))) IN
    IF field = NoField THEN FALSE
    ELSE IF Len(parts) = 1 THEN ~field.store
    ELSE IF field.type = "many2one" /\ field.comodel_name # "none"
    THEN IsComputedParts(field.comodel_name, Tail(parts))
    ELSE FALSE

IsComputedField(model, field_path) == IsComputedParts(model, Split(field_path))

\* ------------------------------------------------------- filter terms
\* A term of a domain: a string, a list/tuple of `len` elements whose
\* first two are `field` and `op`, or a value of another type.
Connective(s) == [t |-> "str", s |-> s, len |-> 0, field |-> NoPath, op |-> ""]
Leaf(field, op, len) == [t |-> "seq", s |-> "", len |-> len, field |-> field, op |-> op]
OtherTerm == [t |-> "other", s |-> "", len |-> 0, field |-> NoPath, op |-> ""]

ALLOWED_OPS ==
    {"=", "!=", "<", ">", "<=", ">=", "in", "not in", "ilike", "like",
     "=like", "=ilike", "child_of", "parent_of"}
ALLOWED_DOMAIN_OPERATORS ==
    {"=", "!=", ">", ">=", "<", "<=", "=?", "=like", "=ilike", "like",
     "not like", "ilike", "not ilike", "in", "not in", "child_of", "parent_of"}
ALLOWED_LOGICAL == {"&", "|", "!"}
ALLOWED_AGG_OPS == {"sum", "avg", "count", "count_distinct", "min", "max"}

\* The ORM's own test of a domain it is asked to search: every term is a
\* connective or a leaf of exactly three elements, and the prefix notation
\* closes (`Expected` counts the operands still owed, an implicit '&'
\* joining the terms that follow a closed expression).
RECURSIVE Expected(_, _)
Expected(domain, owed) ==
    IF domain = <<>> THEN owed
    ELSE LET e == IF owed = 0 THEN 1 ELSE owed
             t == Head(domain) IN
         Expected(Tail(domain),
                  IF t.t = "str" /\ t.s \in {"&", "|"} THEN e + 1
                  ELSE IF t.t = "str" /\ t.s = "!" THEN e
                  ELSE e - 1)

OrmWellFormed(domain) ==
    /\ \A i \in 1..Len(domain) :
          \/ domain[i].t = "str" /\ domain[i].s \in ALLOWED_LOGICAL
          \/ domain[i].t = "seq" /\ domain[i].len = 3
    /\ (domain = <<>> \/ Expected(domain, 1) = 0)

RECURSIVE Flatten(_)
Flatten(ss) == IF ss = <<>> THEN <<>> ELSE Head(ss) \o Flatten(Tail(ss))

\* ------------------------------------------------- validator.validate
VErr(text, field, name) == [text |-> text, field |-> field, name |-> name]

\* if not isinstance(cond, (list, tuple)) or len(cond) < 3: continue
SkipsCond(cond) == cond.t # "seq" \/ cond.len < 3

CondErrors(model, cond) ==
    IF SkipsCond(cond) THEN <<>>
    ELSE (IF cond.op \notin ALLOWED_OPS
          THEN <<VErr("Invalid domain operator: %s", NoPath, cond.op)>> ELSE <<>>)
         \o (IF ~FieldExists(model, cond.field)
             THEN <<VErr("Unknown field path: %s", cond.field, "")>>
             ELSE IF IsComputedField(model, cond.field)
             THEN <<VErr("Cannot filter on computed (non-stored) field: %s",
                         cond.field, "")>>
             ELSE <<>>)

FieldErrors(model, field) ==
    IF ~FieldExists(model, field)
    THEN <<VErr("Unknown field: %s on %s", field, model)>>
    ELSE IF IsComputedField(model, field)
    THEN <<VErr("Cannot select computed (non-stored) field: %s", field, "")>>
    ELSE <<>>

GroupByErrors(model, gb) ==
    IF ~FieldExists(model, gb)
    THEN <<VErr("Unknown group_by field: %s on %s", gb, model)>>
    ELSE IF IsComputedField(model, gb)
    THEN <<VErr("Cannot group by computed (non-stored) field: %s", gb, "")>>
    ELSE <<>>

AggErrors(model, agg) ==
    IF agg.field # NoPath /\ IsComputedField(model, agg.field)
    THEN <<VErr("Cannot aggregate on computed (non-stored) field: %s",
                agg.field, "")>>
    ELSE <<>>

\* est > 200000 is an error, est > 50000 a warning; a failed probe a warning.
EstErrors(est, raised) ==
    IF ~raised /\ est > 200000
    THEN <<VErr("Estimated row count too high (%s) for %s", NoPath, "")>> ELSE <<>>

EstWarnings(est, raised) ==
    IF raised THEN <<"Row count estimation failed on %s: %s">>
    ELSE IF est > 50000 /\ est <= 200000 THEN <<"Large dataset (%s rows) on %s">>
    ELSE <<>>

\* AiAnalystQueryPlanValidator._has_company_filter
HasCompanyFilter(domain) ==
    \E i \in 1..Len(domain) :
        domain[i].t = "seq" /\ domain[i].len >= 1 /\ domain[i].field = <<"company_id">>

\* One turn of validate's loop over the steps of the plan.
StepErrors(env, step, est, raised) ==
    IF step.model \notin Models
    THEN <<VErr("Unknown model: %s", NoPath, step.model)>>
    ELSE IF ~env.can_read
    THEN <<VErr("No read access to model: %s", NoPath, step.model)>>
    ELSE Flatten([i \in 1..Len(step.domain) |-> CondErrors(step.model, step.domain[i])])
         \o Flatten([i \in 1..Len(step.fields) |-> FieldErrors(step.model, step.fields[i])])
         \o Flatten([i \in 1..Len(step.group_by) |-> GroupByErrors(step.model, step.group_by[i])])
         \o Flatten([i \in 1..Len(step.aggregations) |->
                        AggErrors(step.model, step.aggregations[i])])
         \o EstErrors(est, raised \/ ~OrmWellFormed(step.domain))

StepWarnings(env, step, est, raised) ==
    IF step.model \notin Models \/ ~env.can_read THEN <<>>
    ELSE EstWarnings(est, raised \/ ~OrmWellFormed(step.domain))
         \o (IF "company_id" \in DOMAIN ModelFields(step.model)
                /\ ~HasCompanyFilter(step.domain)
             THEN <<"Missing company_id filter on %s">> ELSE <<>>)

\* AiAnalystQueryPlanValidator.validate(user, plan)
validate(env, plan, est, raised) ==
    LET errors == Flatten([i \in 1..Len(plan.steps) |->
                              StepErrors(env, plan.steps[i], est, raised)])
        warnings == Flatten([i \in 1..Len(plan.steps) |->
                                StepWarnings(env, plan.steps[i], est, raised)]) IN
    [kind |-> "validation", valid |-> (errors = <<>>), errors |-> errors,
     warnings |-> warnings]

\* ------------------------------------------------------- plan values
\* A JSON scalar where a number is expected: absent/None, an integer, or
\* a text that int() cannot read.
NoneVal == [t |-> "none", n |-> 0]
IntVal(n) == [t |-> "int", n |-> n]
TextVal == [t |-> "text", n |-> 0]
FalsyVal(v) == v.t = "none" \/ (v.t = "int" /\ v.n = 0)
\* A JSON string or absence: "None" is a missing key, "False" is False.
FalsyStr(x) == x \in {"None", "False", ""}

\* A cursor token as it travels: `wire` is how the text reads ("b64":
\* base64 text; "raw": not base64; "None"/"False"/"": no token), `body`
\* what the decoded bytes hold ("object": a JSON object; "array";
\* "text": not JSON), `offset` and `exp` the members of the object.
NoCursor == [wire |-> "None", body |-> "none", offset |-> NoneVal, exp |-> NoneVal]
FalseCursor == [wire |-> "False", body |-> "none", offset |-> NoneVal, exp |-> NoneVal]
FalsyCursor(c) == c.wire \in {"None", "False", ""}

\* encode_cursor(offset): base64 of the JSON of {offset, exp = now + TTL}.
encode_cursor(offset, clock) ==
    [wire |-> "b64", body |-> "object", offset |-> IntVal(offset),
     exp |-> IntVal(clock + CURSOR_TTL_SECONDS)]

Raise(exc, msg) == [kind |-> "error", exc |-> exc, msg |-> msg]
IsError(r) == r.kind = "error"

\* exp = int(payload.get('exp') or 0); if exp and exp < now
Expired(exp, clock) == ~FalsyVal(exp) /\ exp.n < clock

\* decode_cursor(cursor): the payload, or ValidationError for whatever the
\* try block raised (also its own 'Cursor token expired.').
decode_cursor(cursor, clock) ==
    IF FalsyCursor(cursor) THEN [kind |-> "payload", offset |-> IntVal(0)]
    ELSE IF cursor.wire # "b64" \/ cursor.body # "object" \/ cursor.exp.t = "text"
    THEN Raise("ValidationError", "Invalid cursor token.")
    ELSE IF Expired(cursor.exp, clock)
    THEN Raise("ValidationError", "Invalid cursor token.")
    ELSE [kind |-> "payload", offset |-> cursor.offset]

\* (mutant) the limit is only kept positive.
ClampLimit_NoCeiling(limit) == Max(1, limit)

\* max(1, min(1000, limit)), max(0, min(100000, offset))
ClampLimit(limit) == Max(1, Min(MAX_PAGE_LIMIT, limit))
ClampOffset(offset) == Max(0, Min(MAX_OFFSET, offset))

\* _normalize_pagination: the pagination of the normalized plan, or what
\* int() or decode_cursor raised.
NormalizePagination(p, clock) ==
    LET mode == IF FalsyStr(p.mode) THEN "offset" ELSE p.mode
        limit == ClampLimit(IF FalsyVal(p.limit) THEN 100 ELSE p.limit.n)
        offset == ClampOffset(IF FalsyVal(p.offset) THEN 0 ELSE p.offset.n)
        decoded == IF FalsyCursor(p.cursor)
                   THEN [kind |-> "payload", offset |-> IntVal(0)]
                   ELSE decode_cursor(p.cursor, clock)
        cursor == IF FalsyCursor(p.cursor) THEN FalseCursor ELSE p.cursor IN
    IF mode \notin {"offset", "cursor"}
    THEN Raise("ValidationError", "pagination.mode must be offset or cursor.")
    ELSE IF ~FalsyVal(p.limit) /\ p.limit.t = "text"
    THEN Raise("ValueError", "invalid literal for int()")
    ELSE IF ~FalsyVal(p.offset) /\ p.offset.t = "text"
    THEN Raise("ValueError", "invalid literal for int()")
    ELSE IF mode = "cursor"
    THEN IF IsError(decoded) THEN decoded
         ELSE IF ~FalsyVal(decoded.offset) /\ decoded.offset.t = "text"
         THEN Raise("ValueError", "invalid literal for int()")
         ELSE [kind |-> "pagination", mode |-> mode, limit |-> IntVal(limit),
               offset |-> IntVal(IF FalsyVal(decoded.offset) THEN 0
                                 ELSE decoded.offset.n),
               cursor |-> cursor]
    ELSE [kind |-> "pagination", mode |-> mode, limit |-> IntVal(limit),
          offset |-> IntVal(offset), cursor |-> cursor]

\* ------------------------------------------------------- normalizer
\* The first message of a sequence of per-item results ("" is no error).
RECURSIVE FirstError(_)
FirstError(errs) ==
    IF errs = <<>> THEN ""
    ELSE IF Head(errs) # "" THEN Head(errs) ELSE FirstError(Tail(errs))

\* What a call of _resolve_field raises ("" when it returns).
ErrorOf(r) == IF r.ok THEN "" ELSE r.error
ResolveError(model, path) == ErrorOf(ResolveField(model, path))

\* _validate_domain, one term of the loop.
TermError(model, term) ==
    IF term.t = "str"
    THEN IF term.s \notin ALLOWED_LOGICAL
         THEN "Invalid logical operator in domain: %s" ELSE ""
    ELSE IF term.t # "seq" \/ term.len < 3 THEN "Invalid domain term: %s"
    ELSE FirstError(<<ResolveError(model, term.field),
                      IF term.op \notin ALLOWED_DOMAIN_OPERATORS
                      THEN "Operator %s is not allowed." ELSE "">>)

\* _validate_domain: the loop, then model.search_count(domain).
ValidateDomain(model, domain, raised) ==
    LET msg == FirstError([i \in 1..Len(domain) |-> TermError(model, domain[i])]) IN
    IF msg # "" THEN Raise("ValidationError", msg)
    ELSE IF raised \/ ~OrmWellFormed(domain) THEN Raise("StoreError", "search_count")
    ELSE [kind |-> "ok"]

\* _normalize_fields
FieldItemError(model, f) ==
    IF f.name = NoPath THEN "Each field descriptor requires name."
    ELSE ResolveError(model, f.name)

NormalizeField(f) ==
    [name |-> f.name,
     alias |-> IF f.alias = NoPath THEN Replace(f.name) ELSE f.alias,
     extract |-> IF FalsyStr(f.extract) THEN "False" ELSE f.extract]

NormalizeFields(model, fields) ==
    LET msg == FirstError([i \in 1..Len(fields) |-> FieldItemError(model, fields[i])]) IN
    IF Len(fields) > MAX_FIELDS THEN Raise("ValidationError", "Too many fields. Max %s")
    ELSE IF msg # "" THEN Raise("ValidationError", msg)
    ELSE [kind |-> "ok", out |-> [i \in 1..Len(fields) |-> NormalizeField(fields[i])]]

\* _normalize_aggregations
AggItemError(model, a) ==
    IF a.field = NoPath \/ a.operator \notin ALLOWED_AGG_OPS
    THEN "Invalid aggregation descriptor."
    ELSE ResolveError(model, a.field)

NormalizeAgg(a) ==
    [field |-> a.field, operator |-> a.operator,
     alias |-> IF a.alias = NoPath THEN Replace(a.field) \o <<"_", a.operator>>
               ELSE a.alias]

NormalizeAggregations(model, aggs) ==
    LET msg == FirstError([i \in 1..Len(aggs) |-> AggItemError(model, aggs[i])]) IN
    IF Len(aggs) > MAX_AGGS THEN Raise("ValidationError", "Too many aggregations.")
    ELSE IF msg # "" THEN Raise("ValidationError", msg)
    ELSE [kind |-> "ok", out |-> [i \in 1..Len(aggs) |-> NormalizeAgg(aggs[i])]]

\* _normalize_group_by
GroupItemError(model, g) ==
    IF g.field = NoPath THEN "Invalid group_by descriptor."
    ELSE FirstError(<<ResolveError(model, g.field),
                      IF ~FalsyStr(g.granularity)
                         /\ ResolveField(model, g.field).field.type
                               \notin {"date", "datetime"}
                      THEN "Granularity is only valid for date/datetime fields."
                      ELSE "">>)

NormalizeGroup(g) ==
    [field |-> g.field,
     granularity |-> IF FalsyStr(g.granularity) THEN "False" ELSE g.granularity,
     alias |-> IF g.alias = NoPath THEN Replace(g.field) ELSE g.alias]

NormalizeGroupBy(model, gb, aggs, fields) ==
    LET msg == FirstError([i \in 1..Len(gb) |-> GroupItemError(model, gb[i])]) IN
    IF Len(gb) > MAX_GROUP_BY THEN Raise("ValidationError", "Too many group_by fields.")
    ELSE IF msg # "" THEN Raise("ValidationError", msg)
    ELSE IF aggs # <<>> /\ fields # <<>> /\ gb = <<>>
    THEN Raise("ValidationError", "Aggregations with fields requires group_by.")
    ELSE [kind |-> "ok", out |-> [i \in 1..Len(gb) |-> NormalizeGroup(gb[i])]]

\* 'desc' if o.get('direction') == 'desc' else 'asc'
Direction(direction) == IF direction = "desc" THEN "desc" ELSE "asc"

RECURSIVE KeepOrder(_)
KeepOrder(order_by) ==
    IF order_by = <<>> THEN <<>>
    ELSE (IF Head(order_by).field = NoPath THEN <<>>
          ELSE <<[field |-> Head(order_by).field,
                  direction |-> Direction(Head(order_by).direction)]>>)
         \o KeepOrder(Tail(order_by))

\* _normalize_order_by(normalized): the first ten entries, those without
\* a field dropped; no entry is looked up in the catalog.
NormalizeOrderBy(order_by) ==
    [kind |-> "ok", out |-> KeepOrder(SubSeq(order_by, 1, Min(10, Len(order_by))))]

\* _normalize_options
NormalizeOptions(opts) ==
    IF ~FalsyVal(opts.preview_limit) /\ opts.preview_limit.t = "text"
    THEN Raise("ValueError", "invalid literal for int()")
    ELSE [kind |-> "ok",
          out |-> [preview_only |-> IF FalsyStr(opts.preview_only) THEN "False" ELSE "True",
                   preview_limit |-> IntVal(Max(1, Min(100,
                        IF FalsyVal(opts.preview_limit) THEN 10
                        ELSE opts.preview_limit.n))),
                   include_metadata |-> IF opts.include_metadata = "None" THEN "True"
                                        ELSE IF FalsyStr(opts.include_metadata)
                                        THEN "False" ELSE "True",
                   chart_request |-> IF FalsyStr(opts.chart_request) THEN "{}"
                                     ELSE opts.chart_request,
                   format |-> IF opts.format \in {"json", "csv", "xlsx"}
                              THEN opts.format ELSE "json"]]

\* The checks of validate_and_normalize_plan in their order, given what
\* each section's normalizer returned or raised.
Normalized(env, version, model, domain, dom, flds, aggs, grp, ord, pag, opt) ==
    IF ~env.boss
    THEN Raise("AccessError",
               "boss_open_query requires AI Analyst Boss Open Query Access.")
    ELSE IF version # "1.0"
    THEN Raise("ValidationError", "Unsupported query plan version.")
    ELSE IF FalsyStr(model) \/ model \notin Models
    THEN Raise("ValidationError", "Invalid target_model.")
    ELSE IF ~env.can_read THEN Raise("AccessError", "No read access to model %s")
    ELSE IF IsError(dom) THEN dom
    ELSE IF IsError(flds) THEN flds
    ELSE IF IsError(aggs) THEN aggs
    ELSE IF IsError(grp) THEN grp
    ELSE IF IsError(pag) THEN pag
    ELSE IF IsError(opt) THEN opt
    ELSE [kind |-> "plan",
          plan |-> [version |-> version, target_model |-> model,
                    domain |-> domain, fields |-> flds.out,
                    aggregations |-> aggs.out, group_by |-> grp.out,
                    order_by |-> ord.out,
                    pagination |-> [mode |-> pag.mode, limit |-> pag.limit,
                                    offset |-> pag.offset, cursor |-> pag.cursor],
                    options |-> opt.out]]

\* validate_and_normalize_plan(plan) for the caller `env` (its user, whether
\* it is in the boss group, whether it may read the target entity);
\* `raised` is whether the store raises on the count of _validate_domain.
\* _normalize_group_by reads the normalized fields and aggregations only
\* for their emptiness, which is that of the submitted lists.
validate_and_normalize_plan(env, plan, clock, raised) ==
    Normalized(env, IF FalsyStr(plan.version) THEN "1.0" ELSE plan.version,
               plan.target_model, plan.domain,
               ValidateDomain(plan.target_model, plan.domain, raised),
               NormalizeFields(plan.target_model, plan.fields),
               NormalizeAggregations(plan.target_model, plan.aggregations),
               NormalizeGroupBy(plan.target_model, plan.group_by,
                                plan.aggregations, plan.fields),
               NormalizeOrderBy(plan.order_by),
               NormalizePagination(plan.pagination, clock),
               NormalizeOptions(plan.options))

\* execute_page's dispatch: aggregated when the plan has aggregations.
KindOf(plan) == IF plan.aggregations # <<>> THEN "agg" ELSE "list"

\* estimate_cost: est_rows and the recommended mode.
RecommendedMode(plan, est_rows) ==
    IF plan.options.preview_only = "True" THEN "inline"
    ELSE IF est_rows > ASYNC_THRESHOLD_ROWS \/ est_rows > PAGINATED_MAX_TOTAL
    THEN "async_export"
    ELSE IF est_rows > INLINE_MAX_ROWS THEN "paginated"
    ELSE "inline"

\* The mode BossOpenQueryTool.execute settles on.
ModeOf(params, plan, est_rows) ==
    LET requested == IF FalsyStr(params.mode) THEN "auto" ELSE params.mode
        mode == IF requested = "auto" THEN RecommendedMode(plan, est_rows)
                ELSE requested IN
    IF plan.options.preview_only = "True" THEN "inline"
    ELSE IF params.force_export THEN "async_export"
    ELSE mode

\* plan['pagination']['limit'] = plan['options']['preview_limit'] on preview.
PagedPlan(plan) ==
    IF plan.options.preview_only = "True"
    THEN [plan EXCEPT !.pagination.limit = plan.options.preview_limit]
    ELSE plan

\* svc.count_total(plan): the number of rows the plan yields in all.
count_total(plan, id) == PlanRows(KindOf(plan), id)

\* (mutant) the page that ends exactly at the total still announces more.
HasMore_Inclusive(offset, rows, total_count) == (offset + rows) <= total_count

\* has_more = (offset + len(rows)) < total_count
HasMore(offset, rows, total_count) == (offset + rows) < total_count

\* (mutant) the executor writes a record while reading.
StoreLeft_Writes(st) == [st EXCEPT !.all = st.all + 1]

\* What estimate_cost and execute_page leave behind. They call search,
\* search_count, read, read_group and browse().read on the store and only
\* read the `normalized` dict they are given: the store after them is the
\* store before, and so is the plan.
StoreLeft(st) == st

PlanLeft(plan) == plan

\* The synchronous branch of BossOpenQueryTool.execute: the page, the
\* pagination meta and the query_plan of the next_page action. limit and
\* offset are read from the plan after execute_page has run on it.
PageResponse(env, plan, mode, clock) ==
    LET limit == PlanLeft(plan).pagination.limit.n
        offset == PlanLeft(plan).pagination.offset.n
        rows == execute_page(KindOf(plan), env.user, plan.pagination.limit.n,
                             plan.pagination.offset.n)
        total_count == count_total(plan, env.user)
        has_more == HasMore(offset, rows, total_count)
        next_offset == IF has_more THEN offset + limit ELSE offset
        next_cursor == IF has_more THEN encode_cursor(next_offset, clock)
                       ELSE FalseCursor IN
    [kind |-> "page", mode |-> mode, rows |-> rows, offset |-> offset,
     limit |-> limit, total |-> total_count, has_more |-> has_more,
     next_offset |-> next_offset, next_cursor |-> next_cursor,
     next_plan |-> [PlanLeft(plan) EXCEPT !.pagination.offset = IntVal(next_offset),
                                          !.pagination.cursor = next_cursor]]

\* BossOpenQueryTool.execute after svc.validate_and_normalize_plan returned
\* or raised `norm` and the count of estimate_cost gave `est_rows`.
Executed(env, params, clock, est_rows, norm) ==
    IF ~env.boss
    THEN Raise("AccessError", "boss_open_query requires group_boss_open_query")
    ELSE IF IsError(norm) THEN norm
    ELSE IF ModeOf(params, norm.plan, est_rows) = "async_export"
    THEN [kind |-> "queued", mode |-> "async_export", plan |-> PagedPlan(norm.plan)]
    ELSE PageResponse(env, PagedPlan(norm.plan),
                      ModeOf(params, norm.plan, est_rows), clock)

\* BossOpenQueryTool.execute(env, user, params); `raised` is whether the
\* store raises on a count (estimate_cost then takes 10000).
execute(env, params, clock, raised) ==
    Executed(env, params, clock,
             IF raised THEN ASYNC_THRESHOLD_ROWS ELSE search_count(env.user),
             validate_and_normalize_plan(env, params.query_plan, clock, raised))

\* ------------------------------------------------------- plans submitted
\* Field paths a caller may write for an entity: every field of the
\* entity and an unknown one, chains of to-one hops of every length up to
\* MaxHops ending on a stored, a computed and an unknown field, a
\* traversal through a scalar, the empty path and a path ending in a dot.
RECURSIVE Hop(_)
Hop(n) == IF n = 0 THEN <<>> ELSE <<"parent_id", Dot>> \o Hop(n - 1)

PathTo(model, hops, last) ==
    IF hops = 0 THEN <<last>>
    ELSE (IF model = "sale.order" THEN <<"partner_id", Dot>> \o Hop(hops - 1)
          ELSE Hop(hops)) \o <<last>>

PathsOf(model) ==
    {PathTo(model, 0, f) : f \in DOMAIN ModelFields(model) \cup {"nope"}}
    \cup {PathTo(model, h, f) : h \in 1..MaxHops, f \in {"name", "display_name", "nope"}}
    \cup {<<"name", Dot, "name">>, NoPath, <<"name", Dot>>}

OpChoices == {"=", "=?", "not like", "ilike", "~"}

TermsOf(model) ==
    {Leaf(p, op, 3) : p \in PathsOf(model), op \in OpChoices}
    \cup {Leaf(<<"name">>, op, n) : op \in {"=", "~"}, n \in {2, 4}}
    \cup {Connective(c) : c \in {"&", "!", "xor"}}
    \cup {OtherTerm}

DomainsOf(model) ==
    {<<t>> : t \in TermsOf(model)}
    \cup {<<Connective(c), Leaf(<<"name">>, "=", 3), t>> :
             c \in {"&", "|", "xor"},
             t \in {Leaf(<<"company_id">>, "=", 3), Leaf(<<"name">>, "~", 3),
                    Leaf(<<"name">>, "=", 2), OtherTerm}}

Fd(path) == [name |-> path, alias |-> NoPath, extract |-> "None"]
Agg(path, op) == [field |-> path, operator |-> op, alias |-> NoPath]
Grp(path, granularity) == [field |-> path, granularity |-> granularity, alias |-> NoPath]
Ord(path, direction) == [field |-> path, direction |-> direction]

\* Plans given to the plan validator: one step, one section filled.
BaseStep(model) ==
    [model |-> model, domain |-> <<>>, fields |-> <<>>, group_by |-> <<>>,
     aggregations |-> <<>>]

StepsOf(model) ==
    {BaseStep(model)}
    \cup {[BaseStep(model) EXCEPT !.domain = d] : d \in DomainsOf(model)}
    \cup {[BaseStep(model) EXCEPT !.fields = <<p>>] : p \in PathsOf(model)}
    \cup {[BaseStep(model) EXCEPT !.group_by = <<p>>] : p \in PathsOf(model)}
    \cup {[BaseStep(model) EXCEPT !.aggregations = <<Agg(p, "sum")>>] :
             p \in PathsOf(model)}

ValidatorPlans ==
    {[steps |-> <<>>], [steps |-> <<BaseStep("no.model")>>]}
    \cup {[steps |-> <<s>>] : s \in StepsOf("sale.order") \cup StepsOf("res.partner")}
    \cup {[steps |-> <<BaseStep("res.partner"), s>>] :
             s \in {[BaseStep("sale.order") EXCEPT !.group_by = <<<<"margin">>>>],
                    [BaseStep("sale.order") EXCEPT !.domain = <<Leaf(<<"name">>, "~", 3)>>]}}

EstChoices == {0, PAGINATED_MAX_TOTAL + 1, 200001}

\* Callers: a boss who may read the entity, one outside the boss group,
\* one without read access to the entity.
Callers ==
    {[user |-> u, boss |-> TRUE, can_read |-> TRUE] : u \in Users}
    \cup {[user |-> "alice", boss |-> FALSE, can_read |-> TRUE],
          [user |-> "alice", boss |-> TRUE, can_read |-> FALSE]}

\* Cursor tokens a caller may send at time `clock`: none, one the service
\* made, ones a caller made up (expiring now, expired, without exp, with
\* offsets the service would not hand out), and malformed ones.
Tok(offset, exp) == [wire |-> "b64", body |-> "object", offset |-> offset, exp |-> exp]

WellFormedTokens(clock) ==
    {encode_cursor(2, clock),
     Tok(IntVal(2), IntVal(clock)),
     Tok(IntVal(2), NoneVal),
     Tok(NoneVal, IntVal(clock + 1)),
     Tok(IntVal(MAX_OFFSET + 500), IntVal(clock + 1)),
     Tok(IntVal(0 - 5), IntVal(clock + 1))}

ExpiredTokens(clock) ==
    {Tok(IntVal(2), IntVal(clock - 1)), Tok(IntVal(2), IntVal(0))}

MalformedTokens(clock) ==
    {[wire |-> "raw", body |-> "none", offset |-> NoneVal, exp |-> NoneVal],
     [wire |-> "b64", body |-> "text", offset |-> NoneVal, exp |-> NoneVal],
     [wire |-> "b64", body |-> "array", offset |-> NoneVal, exp |-> NoneVal],
     Tok(IntVal(2), TextVal),
     Tok(TextVal, IntVal(clock + 1))}

CursorChoices(clock) ==
    {NoCursor, FalseCursor} \cup WellFormedTokens(clock)
    \cup ExpiredTokens(clock) \cup MalformedTokens(clock)

LimitChoices ==
    {NoneVal, IntVal(0), IntVal(1), IntVal(MAX_PAGE_LIMIT), IntVal(MAX_PAGE_LIMIT + 1),
     IntVal(0 - 5), TextVal}

OffsetChoices ==
    {NoneVal, IntVal(0), IntVal(2), IntVal(MAX_OFFSET), IntVal(MAX_OFFSET + 1),
     IntVal(0 - 1), TextVal}

Pg(mode, limit, offset, cursor) ==
    [mode |-> mode, limit |-> limit, offset |-> offset, cursor |-> cursor]

PaginationChoices(clock) ==
    {Pg(m, l, NoneVal, NoCursor) : m \in {"None", "offset", "page"}, l \in LimitChoices}
    \cup {Pg(m, l, o, NoCursor) :
             m \in {"None", "offset"}, l \in {IntVal(1), IntVal(MAX_PAGE_LIMIT)},
             o \in OffsetChoices}
    \cup {Pg(m, NoneVal, o, c) :
             m \in {"None", "offset"}, o \in {NoneVal, IntVal(2)},
             c \in CursorChoices(clock)}
    \cup {Pg("cursor", l, o, c) :
             l \in {NoneVal, IntVal(1), IntVal(MAX_PAGE_LIMIT)},
             o \in {NoneVal, IntVal(2)}, c \in CursorChoices(clock)}

Opts(preview_only, preview_limit) ==
    [preview_only |-> preview_only, preview_limit |-> preview_limit,
     include_metadata |-> "None", chart_request |-> "None", format |-> "None"]

OptionChoices ==
    {Opts("None", NoneVal)}
    \cup {Opts("True", l) : l \in {NoneVal, IntVal(0), IntVal(3), IntVal(500), TextVal}}
    \cup {[Opts("False", IntVal(3)) EXCEPT !.include_metadata = i, !.format = f,
                                           !.chart_request = c] :
             i \in {"None", "False", "True"}, f \in {"csv", "pdf"},
             c \in {"{}", "chart"}}

\* Plans given to the service: the base plan projects one stored field;
\* one section at a time takes every value of its set.
BasePlan(model) ==
    [version |-> "None", target_model |-> model, domain |-> <<>>,
     fields |-> <<Fd(<<"name">>)>>, aggregations |-> <<>>, group_by |-> <<>>,
     order_by |-> <<>>, pagination |-> Pg("None", NoneVal, NoneVal, NoCursor),
     options |-> Opts("None", NoneVal)]

\* The aggregated base plan: a count per value of a stored field.
GroupedPlan(model) ==
    [BasePlan(model) EXCEPT !.fields = <<>>,
                            !.aggregations = <<Agg(<<"name">>, "count")>>,
                            !.group_by = <<Grp(<<"name">>, "None")>>]

SectionPlans(model) ==
    {BasePlan(model), GroupedPlan(model)}
    \cup {[BasePlan(model) EXCEPT !.version = v] : v \in {"1.0", "2.0"}}
    \cup {[BasePlan(model) EXCEPT !.domain = d] : d \in DomainsOf(model)}
    \cup {[BasePlan(model) EXCEPT !.fields = <<Fd(p)>>] : p \in PathsOf(model)}
    \cup {[BasePlan(model) EXCEPT !.fields = <<[Fd(p) EXCEPT !.alias = <<"n">>,
                                                             !.extract = "year"]>>] :
             p \in {<<"name">>, <<"partner_id", Dot, "name">>}}
    \cup {[BasePlan(model) EXCEPT !.aggregations = <<Agg(p, op)>>] :
             p \in PathsOf(model), op \in {"sum", "median"}}
    \cup {[GroupedPlan(model) EXCEPT !.aggregations = <<Agg(p, op)>>] :
             p \in PathsOf(model), op \in {"sum", "median"}}
    \cup {[GroupedPlan(model) EXCEPT !.group_by = <<Grp(p, g)>>] :
             p \in PathsOf(model), g \in {"None", "month"}}
    \cup {[BasePlan(model) EXCEPT !.order_by = <<Ord(p, d)>>] :
             p \in PathsOf(model), d \in {"desc", "asc", "None"}}
    \cup {[BasePlan(model) EXCEPT !.order_by =
               [i \in 1..11 |-> Ord(IF i = 2 THEN NoPath ELSE <<"name">>, "desc")]]}
    \cup {[BasePlan(model) EXCEPT !.options = o] : o \in OptionChoices}

ServicePlans(clock) ==
    SectionPlans("sale.order") \cup SectionPlans("res.partner")
    \cup {[BasePlan("sale.order") EXCEPT !.target_model = m] : m \in {"None", "no.model"}}
    \cup {[BasePlan("sale.order") EXCEPT !.pagination = pg] :
             pg \in PaginationChoices(clock)}

\* Parameters given to the tool: every pagination with two requested
\* modes, and the base pagination with every mode and option.
ModeChoices == {"None", "auto", "inline", "paginated", "async_export"}

Params(plan, mode, force_export) ==
    [query_plan |-> plan, mode |-> mode, force_export |-> force_export]

ToolParams(clock) ==
    {Params([b EXCEPT !.pagination = pg], m, FALSE) :
        b \in {BasePlan("sale.order"), GroupedPlan("sale.order")},
        pg \in PaginationChoices(clock), m \in {"None", "paginated"}}
    \cup {Params([b EXCEPT !.options = o,
                           !.pagination = Pg("None", l, NoneVal, NoCursor)], m, f) :
             b \in {BasePlan("sale.order"), GroupedPlan("sale.order")},
             o \in {Opts("None", NoneVal), Opts("True", NoneVal), Opts("True", IntVal(3))},
             l \in {NoneVal, IntVal(1), IntVal(MAX_PAGE_LIMIT)},
             m \in ModeChoices, f \in BOOLEAN}
    \cup {Params([BasePlan("sale.order") EXCEPT !.fields = <<Fd(<<"nope">>)>>],
                 "None", FALSE),
          Params([GroupedPlan("sale.order") EXCEPT
                      !.aggregations = <<Agg(<<"margin">>, "sum")>>], "None", FALSE)}

\* ------------------------------------------------------- plan requests
\* One request at a time: a request is answered (`ret`), then the caller
\* either follows the answer up or takes it (Return).

\* AiAnalystQueryPlanValidator.validate(user, plan)
Validate ==
    /\ call = NoCall
    /\ \E env \in Callers, plan \in ValidatorPlans, est \in EstChoices,
          raised \in BOOLEAN :
          /\ call' = [op |-> "validate", env |-> env, plan |-> plan,
                      est |-> est, raised |-> raised, at |-> now]
          /\ ret' = validate(env, plan, est, raised)
    /\ UNCHANGED <<store, jobs, proc, crashes, resp, query, walk, lastPage,
                   overlap, sess,
                   now, cache, gw, sem, widget>>

\* svc.validate_and_normalize_plan(plan)
Normalize ==
    /\ call = NoCall
    /\ \E env \in Callers, plan \in ServicePlans(now), raised \in BOOLEAN :
          /\ call' = [op |-> "normalize", env |-> env, plan |-> plan,
                      raised |-> raised, at |-> now]
          /\ ret' = validate_and_normalize_plan(env, plan, now, raised)
    /\ UNCHANGED <<store, jobs, proc, crashes, resp, query, walk, lastPage,
                   overlap, sess,
                   now, cache, gw, sem, widget>>

\* The plan the service returned is handed to the service again.
Renormalize ==
    /\ call.op = "normalize"
    /\ ret.kind = "plan"
    /\ ret' = [kind |-> "again", plan |-> ret.plan, at |-> now,
               again |-> validate_and_normalize_plan(call.env, ret.plan, now, FALSE)]
    /\ UNCHANGED <<store, jobs, proc, crashes, resp, query, walk, lastPage,
                   overlap, call, sess,
                   now, cache, gw, sem, widget>>

\* What the caller of a run of next_page requests has been given so far:
\* `covered` is the offset up to which rows were delivered, `dup` whether a
\* row was delivered twice, `gap` whether a row was passed over.
NewSess(r) ==
    IF r.kind = "page"
    THEN [open |-> r.offset = 0, covered |-> r.offset + r.rows, dup |-> FALSE,
          gap |-> FALSE, requests |-> 1]
    ELSE [open |-> FALSE, covered |-> 0, dup |-> FALSE, gap |-> FALSE, requests |-> 1]

Track(s, r) ==
    IF r.kind = "page"
    THEN [open |-> s.open, covered |-> Max(s.covered, r.offset + r.rows),
          dup |-> s.dup \/ (r.rows > 0 /\ r.offset < s.covered),
          gap |-> s.gap \/ r.offset > s.covered,
          requests |-> s.requests + 1]
    ELSE [s EXCEPT !.open = FALSE, !.requests = s.requests + 1]

\* BossOpenQueryTool.execute(env, user, params); an async_export request
\* creates the export job.
Answered(env, params, raised, r) ==
    /\ call' = [op |-> "execute", env |-> env, params |-> params, raised |-> raised,
                at |-> now]
    /\ ret' = r
    /\ sess' = NewSess(r)
    /\ store' = IF r.kind \in {"page", "queued"} THEN StoreLeft(store) ELSE store
    /\ IF r.kind = "queued"
       THEN /\ ~jobs[NewestJob].exists
            /\ jobs' = [jobs EXCEPT ![NewestJob] = NewJob(env.user, KindOf(r.plan))]
       ELSE jobs' = jobs

Execute ==
    /\ call = NoCall
    /\ \E env \in Callers, params \in ToolParams(now), raised \in BOOLEAN :
          Answered(env, params, raised, execute(env, params, now, raised))
    /\ UNCHANGED <<proc, crashes, resp, query, walk, lastPage, overlap,
                   now, cache, gw, sem, widget>>

\* The caller runs the next_page action of the response: its params are
\* submitted to the tool as they are.
FollowNext ==
    /\ call.op = "execute"
    /\ ret.kind = "page"
    /\ ret.has_more
    /\ sess.requests < MaxRequests
    /\ call' = [call EXCEPT !.params = Params(ret.next_plan, ret.mode, FALSE),
                            !.raised = FALSE, !.at = now]
    /\ ret' = execute(call.env, Params(ret.next_plan, ret.mode, FALSE), now, FALSE)
    /\ sess' = Track(sess, ret')
    /\ store' = IF ret'.kind = "page" THEN StoreLeft(store) ELSE store
    /\ UNCHANGED <<jobs, proc, crashes, resp, query, walk, lastPage, overlap,
                   now, cache, gw, sem, widget>>

\* Time passes: more than the life of a cursor token.
Tick ==
    /\ now < (MaxTicks + 1) * CURSOR_TTL_SECONDS
    /\ now' = now + CURSOR_TTL_SECONDS + 1
    /\ UNCHANGED <<store, jobs, proc, crashes, resp, query, walk, lastPage,
                   overlap, call, ret, sess,
                   cache, gw, sem, widget>>

\* The caller takes the answer; the next request can be made.
Return ==
    /\ call # NoCall
    /\ ret.kind # "queued"
    /\ call' = NoCall
    /\ ret' = NoRet
    /\ sess' = NoSess
    /\ UNCHANGED <<store, jobs, proc, crashes, resp, query, walk, lastPage,
                   overlap,
                   now, cache, gw, sem, widget>>

\* ====================================================================
\* Gateway: tiered planning and the query cache
\* ====================================================================
MaxGwRequests == 2
MaxCacheTicks == 2

\* ttl_seconds=300 of the gateway's set_cached call.
CACHE_TTL == 300

\* tier_chain = ['cheap', 'standard', 'premium']
tier_chain == <<"cheap", "standard", "premium">>

\* ------------------------------------------------------- planner.plan
\* What the planner makes of a question: the method its wording selects
\* and the field path the resolver finds in it.
Question(method, field) == [method |-> method, field |-> field]

\* AiAnalystQueryPlanner.plan(user, question, conversation_context, tier):
\* one step; the tier only appears in meta.planner_tier.
planner_plan(question, tier) ==
    [steps |-> <<[id |-> "step_1", model |-> "sale.order",
                  method |-> question.method, domain |-> <<>>,
                  fields |-> <<question.field>>, group_by |-> <<>>,
                  aggregations |-> <<>>, limit |-> 80]>>,
     meta |-> [planner_tier |-> tier]]

NoPlan == [steps |-> <<>>, meta |-> [planner_tier |-> "None"]]

\* --------------------------------------------------- orchestrator.run
\* The Python type of a value read() returns for a field.
PyType(field) ==
    CASE field.type = "many2one" -> "tuple"
      [] field.type = "datetime" -> "datetime"
      [] field.type = "many2many" -> "list"
      [] field.type = "float" -> "float"
      [] OTHER -> "str"

\* AiAnalystQueryOrchestrator._run_step under with_user(user): a count, or
\* the rows read, each row holding one value per field.
_run_step(user, step) ==
    IF step.method = "search_count"
    THEN [shape |-> "count", n |-> Visible(user), cells |-> <<>>]
    ELSE [shape |-> "rows", n |-> Min(step.limit, Visible(user)),
          cells |-> [i \in 1..Len(step.fields) |->
                        PyType(FieldGet(step.model, SegName(step.fields[i])))]]

\* AiAnalystQueryOrchestrator.run(user, plan)
orchestrator_run(user, p) ==
    [steps |-> [i \in 1..Len(p.steps) |-> _run_step(user, p.steps[i])],
     metrics |-> <<>>]

\* ------------------------------------------------------------- JSON
\* json.dumps(value, default=str): a tuple is written as an array, a
\* datetime through str(); json.loads reads arrays as lists.
JsonType(t) ==
    CASE t = "tuple" -> "list"
      [] t = "datetime" -> "str"
      [] OTHER -> t

dumps(payload) ==
    <<"json", [payload EXCEPT !.steps =
                  [i \in 1..Len(payload.steps) |->
                      [payload.steps[i] EXCEPT !.cells =
                          [k \in 1..Len(payload.steps[i].cells) |->
                              JsonType(payload.steps[i].cells[k])]]]]>>

loads(text) == text[2]

\* -------------------------------------------------------- query cache
\* AiAnalystQueryCache.build_key: sha256 of the plan's canonical JSON.
build_key(p) == <<"sha256", p>>

NoPayload == [steps |-> <<>>, metrics |-> "None"]

\* (mutant) the entry is still served at the moment it expires.
Live_AtExpiry(row, clock) == row.expires_at >= clock

\* ('expires_at', '>', fields.Datetime.now())
Live(row, clock) == row.expires_at > clock

\* AiAnalystQueryCache.get_cached(plan)
get_cached(rows, p, clock) ==
    LET rec == {row \in rows : row.key = build_key(p) /\ Live(row, clock)} IN
    IF rec = {} THEN NoPayload ELSE loads((CHOOSE row \in rec : TRUE).payload)

\* set_cached: rec = self.search([('key', '=', key)], limit=1)
Found(rows, p) == \E row \in rows : row.key = build_key(p)

\* set_cached: rec.write(vals) if rec else self.create(dict(vals, key=key)),
\* on the table as it is when the statement runs; unique(key) rejects a
\* second row for the key, a write on a deleted row finds nothing.
SetCached(rows, p, payload, expires, found) ==
    LET vals == [key |-> build_key(p), payload |-> dumps(payload),
                 expires_at |-> expires] IN
    IF found
    THEN IF Found(rows, p)
         THEN [rows |-> {row \in rows : row.key # build_key(p)} \cup {vals},
               raised |-> "none"]
         ELSE [rows |-> rows, raised |-> "MissingError"]
    ELSE IF Found(rows, p)
    THEN [rows |-> rows, raised |-> "IntegrityError: uq_cache_key"]
    ELSE [rows |-> rows \cup {vals}, raised |-> "none"]

\* AiAnalystQueryCache.purge_expired
purge_expired(rows, clock) == {row \in rows : ~(row.expires_at <= clock)}

\* ------------------------------------------------- _run_universal_query
Take(seq, n) == SubSeq(seq, 1, Min(n, Len(seq)))

\* validation = {'valid': False, 'errors': ['no plan'], 'warnings': []}
NoValidation ==
    [kind |-> "validation", valid |-> FALSE,
     errors |-> <<VErr("no plan", NoPath, "")>>, warnings |-> <<>>]

\* AiAnalystGateway._error_response(message)
_error_response(message) == [answer |-> message, error |-> message]

\* The structured answer of a request that ran its plan.
Structured(r, payload, cached) ==
    [answer |-> "Found %s records from %s.",
     rows |-> payload,
     meta |-> [route |-> "universal_query", query_plan |-> r.plan,
               validation |-> r.validation, cached |-> cached,
               escalation_trace |-> r.trace]]

\* (mutant) the loop goes on to the next tier after a valid candidate.
AfterTurn_NoBreak(idx, verdict) ==
    IF idx < Len(tier_chain) THEN "next" ELSE "end"

\* One turn of `for tier in tier_chain`: break on a valid verdict, else
\* the next tier, else the loop ends.
AfterTurn(idx, verdict) ==
    IF verdict.valid THEN "break"
    ELSE IF idx < Len(tier_chain) THEN "next" ELSE "end"

\* The worker after the turn for tier_chain[r.idx] whose candidate got
\* `verdict`, including `if not plan: return self._error_response(...)`.
Turned(r, candidate, verdict, after) ==
    LET r1 == [r EXCEPT
                 !.trace = Append(r.trace,
                              [tier |-> tier_chain[r.idx], valid |-> verdict.valid,
                               errors |-> Take(verdict.errors, 2)]),
                 !.plan = IF verdict.valid THEN candidate ELSE r.plan,
                 !.validation = IF verdict.valid THEN verdict ELSE r.validation] IN
    IF after = "next" THEN [r1 EXCEPT !.idx = r.idx + 1]
    ELSE IF r1.plan = NoPlan
    THEN [r1 EXCEPT !.pc = "done",
                    !.resp = _error_response(
                                [text |-> "Unable to build a safe query plan: %s",
                                 errors |-> Take(r1.validation.errors, 3)])]
    ELSE [r1 EXCEPT !.pc = "lookup"]

\* Questions asked: a count, a listing of a to-one field, and one about a
\* computed field (no tier's plan is valid).
Questions ==
    {Question("search_count", <<"name">>), Question("search_read", <<"partner_id">>),
     Question("search_read", <<"margin">>)}

\* Questions several users ask again and again.
CommonQuestions == {Question("search_read", <<"partner_id">>)}

\* Row counts the validator's probe may find when a tier is validated.
ProbeChoices == {0, 200001}

GwEnv(u) == [user |-> u, boss |-> TRUE, can_read |-> TRUE]

NoAnswer == [answer |-> "None"]

\* A request enters _run_universal_query (no pattern of the pattern
\* library matched the message).
GwStart(t, u, q) ==
    /\ gw.req[t].pc = "idle"
    /\ gw.started < MaxGwRequests
    /\ gw' = [gw EXCEPT
                !.started = gw.started + 1,
                !.req[t] = [pc |-> "tier", user |-> u, question |-> q, idx |-> 1,
                            trace |-> <<>>, plan |-> NoPlan,
                            validation |-> NoValidation,
                            payload |-> NoPayload, found |-> FALSE,
                            expires |-> 0, resp |-> NoAnswer]]
    /\ UNCHANGED <<store, jobs, proc, crashes, resp, query, walk, lastPage,
                   overlap, now, call, ret, sess, cache, sem, widget>>

\* candidate = planner.plan(..., tier=tier); verdict = validator.validate(...)
\* `est` is the count the validator's search_count finds at this validation.
GwTier(t, est) ==
    LET r == gw.req[t] IN
    /\ r.pc = "tier"
    /\ gw' = [gw EXCEPT !.req[t] =
                Turned(r, planner_plan(r.question, tier_chain[r.idx]),
                       validate(GwEnv(r.user),
                                planner_plan(r.question, tier_chain[r.idx]),
                                est, FALSE),
                       AfterTurn(r.idx,
                                 validate(GwEnv(r.user),
                                          planner_plan(r.question, tier_chain[r.idx]),
                                          est, FALSE)))]
    /\ UNCHANGED <<store, jobs, proc, crashes, resp, query, walk, lastPage,
                   overlap, now, call, ret, sess, cache, sem, widget>>

\* cached = cache_model.get_cached(plan); a hit is the payload.
GwLookup(t) ==
    LET r == gw.req[t] IN
    /\ r.pc = "lookup"
    /\ gw' = [gw EXCEPT !.req[t] =
                IF get_cached(cache, r.plan, now) # NoPayload
                THEN [r EXCEPT !.pc = "done",
                               !.payload = get_cached(cache, r.plan, now),
                               !.resp = Structured(r, get_cached(cache, r.plan, now),
                                                   TRUE)]
                ELSE [r EXCEPT !.pc = "run"]]
    /\ UNCHANGED <<store, jobs, proc, crashes, resp, query, walk, lastPage,
                   overlap, now, call, ret, sess, cache, sem, widget>>

\* payload = orchestrator.run(user, plan)
GwRun(t) ==
    LET r == gw.req[t] IN
    /\ r.pc = "run"
    /\ gw' = [gw EXCEPT !.req[t] = [r EXCEPT !.pc = "search",
                                              !.payload = orchestrator_run(r.user, r.plan)]]
    /\ UNCHANGED <<store, jobs, proc, crashes, resp, query, walk, lastPage,
                   overlap, now, call, ret, sess, cache, sem, widget>>

\* set_cached up to its search for the row of the key.
GwSearch(t) ==
    LET r == gw.req[t] IN
    /\ r.pc = "search"
    /\ gw' = [gw EXCEPT !.req[t] = [r EXCEPT !.pc = "store",
                                              !.expires = now + CACHE_TTL,
                                              !.found = Found(cache, r.plan)]]
    /\ UNCHANGED <<store, jobs, proc, crashes, resp, query, walk, lastPage,
                   overlap, now, call, ret, sess, cache, sem, widget>>

\* set_cached's write or create, then the answer is built; an exception
\* of the statement leaves _run_universal_query.
GwStore(t) ==
    LET r == gw.req[t] IN
    /\ r.pc = "store"
    /\ cache' = SetCached(cache, r.plan, r.payload, r.expires, r.found).rows
    /\ gw' = [gw EXCEPT !.req[t] =
                [r EXCEPT !.pc = "done",
                          !.resp =
                             IF SetCached(cache, r.plan, r.payload, r.expires,
                                       r.found).raised = "none"
                             THEN Structured(r, r.payload, FALSE)
                             ELSE [raised |-> SetCached(cache, r.plan, r.payload,
                                                     r.expires, r.found).raised]]]
    /\ UNCHANGED <<store, jobs, proc, crashes, resp, query, walk, lastPage,
                   overlap, now, call, ret, sess, sem, widget>>

\* The answer is taken; the worker is free again.
GwReturn(t) ==
    /\ gw.req[t].pc = "done"
    /\ gw' = [gw EXCEPT !.req[t] = IdleGw]
    /\ UNCHANGED <<store, jobs, proc, crashes, resp, query, walk, lastPage,
                   overlap, now, call, ret, sess, cache, sem, widget>>

\* Half of the cache's time-to-live passes.
GwTick ==
    /\ now < MaxCacheTicks * CACHE_TTL
    /\ now' = now + CACHE_TTL \div 2
    /\ UNCHANGED <<store, jobs, proc, crashes, resp, query, walk, lastPage,
                   overlap, call, ret, sess, cache, gw, sem, widget>>

\* The scheduled purge_expired.
GwPurge ==
    /\ cache' = purge_expired(cache, now)
    /\ cache' # cache
    /\ UNCHANGED <<store, jobs, proc, crashes, resp, query, walk, lastPage,
                   overlap, now, call, ret, sess, gw, sem, widget>>

\* ====================================================================
\* Dashboard: run_widget and the widget semaphore
\* ====================================================================
MaxWidgetRequests == 12

\* Requests differ only by where they are in run_widget, so the state is
\* how many wait in acquire and how many are inside execute_dynamic.
RetryLater == "Too many widget refreshes in progress. Try again in a moment."

\* How execute_dynamic ends: a result, an AccessError, another exception.
Outcomes == {"result", "AccessError", "Exception"}

\* _WIDGET_SEMAPHORE.acquire(timeout=10) taking a permit.
Acquired(permits) == permits - 1

\* (mutant) the permit is given back only when execute_dynamic returned.
Released_OnSuccess(permits, outcome) ==
    IF outcome = "result" THEN permits + 1 ELSE permits

\* finally: _WIDGET_SEMAPHORE.release(), whatever the outcome.
Released(permits, outcome) == permits + 1

\* The widget is not found or the user is not its owner: the request is
\* answered before the semaphore is touched.
WidgetRefuse ==
    /\ \E msg \in {"Widget not found.", "Access denied."} :
          widget' = [widget EXCEPT !.answer = msg]
    /\ UNCHANGED <<store, jobs, proc, crashes, resp, query, walk, lastPage,
                   overlap, now, call, ret, sess, cache, gw, sem>>

\* A request reaches _WIDGET_SEMAPHORE.acquire(timeout=10).
WidgetArrive ==
    /\ widget.waiting + widget.running < MaxWidgetRequests
    /\ widget' = [widget EXCEPT !.waiting = widget.waiting + 1, !.answer = "none"]
    /\ UNCHANGED <<store, jobs, proc, crashes, resp, query, walk, lastPage,
                   overlap, now, call, ret, sess, cache, gw, sem>>

\* acquire returns True: the request enters the try block.
WidgetAcquire ==
    /\ widget.waiting > 0
    /\ sem > 0
    /\ sem' = Acquired(sem)
    /\ widget' = [widget EXCEPT !.waiting = widget.waiting - 1,
                                !.running = widget.running + 1,
                                !.answer = "none"]
    /\ UNCHANGED <<store, jobs, proc, crashes, resp, query, walk, lastPage,
                   overlap, now, call, ret, sess, cache, gw>>

\* acquire returns False after 10 seconds without a free permit.
WidgetTimeout ==
    /\ widget.waiting > 0
    /\ sem = 0
    /\ widget' = [widget EXCEPT !.waiting = widget.waiting - 1,
                                !.answer = RetryLater]
    /\ UNCHANGED <<store, jobs, proc, crashes, resp, query, walk, lastPage,
                   overlap, now, call, ret, sess, cache, gw, sem>>

\* execute_dynamic returns or raises; the finally clause releases.
WidgetFinish ==
    /\ widget.running > 0
    /\ \E outcome \in Outcomes :
          /\ sem' = Released(sem, outcome)
          /\ widget' = [widget EXCEPT !.running = widget.running - 1,
                                      !.answer = outcome]
    /\ UNCHANGED <<store, jobs, proc, crashes, resp, query, walk, lastPage,
                   overlap, now, call, ret, sess, cache, gw>>

\* ====================================================================
\* Properties
\* ====================================================================
Others(w) == Workers \ {w}
RunsJob(w, j) == proc[w].pc \in {"start", "count", "page"} /\ proc[w].job = j

\* The transitions of the export job's state machine.
AllowedEdges ==
    {<<"queued", "processing">>, <<"processing", "completed">>,
     <<"processing", "failed">>}

\* C1: in every execution, whatever the interleaving of action_process
\* calls, a job's state moves only along queued -> processing ->
\* completed | failed: each state a commit takes the row through follows
\* its predecessor by an allowed edge (or repeats it), so nothing is
\* skipped, nothing goes back, and a terminal state is never left.
C1_StateMachine ==
    walk # NoWalk =>
        \A i \in 1..(Len(walk.states) - 1) :
            \/ walk.states[i] = walk.states[i + 1]
            \/ <<walk.states[i], walk.states[i + 1]>> \in AllowedEdges

\* C2: a job is created queued, and action_process on a completed or
\* failed job (direct, status endpoint or cron sweep) changes no field of
\* it and issues no query; the sweep lists queued jobs only.
C2_TerminalNoOp ==
    [][/\ \A j \in JobIds :
             (~jobs[j].exists /\ jobs'[j].exists) => jobs'[j].state = "queued"
       /\ \A w \in Workers :
             (/\ proc[w].pc = "check"
              /\ proc'[w] # proc[w]
              /\ jobs[Head(proc[w].todo)].state \in Terminal)
             => /\ jobs' = jobs
                /\ query' = NoQuery
                /\ walk' = NoWalk
                /\ proc'[w].pc \in {"idle", "check"}
       /\ (proc["cron"].pc = "idle" /\ proc'["cron"].pc = "check")
             => \A i \in 1..Len(proc'["cron"].todo) :
                   jobs[proc'["cron"].todo[i]].state = "queued"]_vars

\* C2 witness: action_process stands at its guard on a job that is
\* already completed or failed.
C2_Witness ==
    \E w \in Workers :
        /\ proc[w].pc = "check"
        /\ jobs[Head(proc[w].todo)].state \in Terminal

\* C3: a job in state completed has processed_rows = total_rows and
\* progress_percent = 100.0, for list and grouped plans and whoever
\* invoked action_process.
C3_CompletedCounts ==
    \A j \in JobIds :
        (jobs[j].exists /\ jobs[j].state = "completed")
        => /\ jobs[j].processed_rows = jobs[j].total_rows
           /\ PctIs100(jobs[j].progress_percent)

\* C4: an exception raised by the re-validation, the total count or any
\* page of a run leaves the job failed with the exception's text as its
\* non-empty error_message when the run returns, and no failed job is
\* ever without an error_message.
C4_FailureRecorded ==
    /\ (query.kind # "none" /\ query.raised # NoExc)
       => /\ jobs[query.job].state = "failed"
          /\ jobs[query.job].error_message = query.raised
          /\ jobs[query.job].error_message \notin {NoMsg, ""}
    /\ \A j \in JobIds :
          (jobs[j].exists /\ jobs[j].state = "failed")
          => jobs[j].error_message \notin {NoMsg, ""}

\* C4 witness: a page after the first one raised.
C4_Witness ==
    /\ query.kind = "page"
    /\ query.offset > 0
    /\ query.raised # NoExc

\* The pages a complete export of the job's plan holds, as its requester
\* reads the store.
ExpectedPages(row) ==
    LET rows == PlanRows(row.query_plan, row.requested_by)
        count == (rows + EXPORT_PAGE_LIMIT - 1) \div EXPORT_PAGE_LIMIT IN
    [i \in 1..count |->
        [offset |-> (i - 1) * EXPORT_PAGE_LIMIT,
         rows |-> Min(EXPORT_PAGE_LIMIT, rows - (i - 1) * EXPORT_PAGE_LIMIT)]]

\* The pages held by a stored blob (its text without BOM and header).
BlobPages(blob) ==
    LET text == b64decode(blob)[2] IN
    IF text = <<>> THEN <<>> ELSE Tail(text)

\* C5: an output blob is stored only on a completed job and then holds
\* all pages; a failed job has none; the download endpoint answers
\* not-found for a job that is not completed.
C5_NoPartialPublish ==
    /\ \A j \in JobIds :
          jobs[j].exists =>
             /\ jobs[j].csv_content # NoBlob =>
                   /\ jobs[j].state = "completed"
                   /\ BlobPages(jobs[j].csv_content) = ExpectedPages(jobs[j])
             /\ jobs[j].state = "failed" => jobs[j].csv_content = NoBlob
    /\ (resp.kind = "download" /\ resp.found)
          => jobs[resp.job].state = "completed"

\* C6: the status and download endpoints answer with a job's fields or
\* output only to its requester; any other user naming the job gets the
\* not-found answer, carrying no field, and no processing is started.
C6_RequesterOnly ==
    /\ [](resp.kind \in {"status", "download"} /\ resp.job # NoJob
          => \/ /\ jobs[resp.job].exists
                /\ resp.user = jobs[resp.job].requested_by
             \/ /\ ~resp.found
                /\ resp.body \in {[error |-> "Export job not found."],
                                  [error |-> "not_found"]})
    /\ [][/\ (/\ resp'.kind \in {"status", "download"}
              /\ resp'.job # NoJob
              /\ resp'.user # jobs[resp'.job].requested_by)
             => UNCHANGED <<jobs, proc,
                   cache, gw, sem, widget>>
          /\ (proc["http"].pc = "idle" /\ proc'["http"].kind = "status")
             => proc'["http"].user
                    = jobs[Head(proc'["http"].todo)].requested_by]_vars

\* C6 witness: a user who is not the requester asked for the status of
\* an existing job (by id or token) and was told it is not found.
C6_Witness ==
    /\ resp.kind = "status"
    /\ resp.job # NoJob
    /\ jobs[resp.job].exists
    /\ resp.user # jobs[resp.job].requested_by
    /\ ~resp.found

\* C7: every store query of a run (re-validation, total count, page)
\* is issued under the job's requester, never under the invoker.
C7_QueriesAsRequester ==
    query.kind # "none" => query.as = jobs[query.job].requested_by

PageTurn(w) ==
    /\ proc[w].pc = "page"
    /\ proc'[w] # proc[w]
    /\ query'.kind = "page"
    /\ query'.raised = NoExc

C10_EventuallyTerminal ==
    \A j \in JobIds : jobs[j].exists ~> (jobs[j].state \in Terminal)

\* ------------------------------------------------------- query plans
\* The filter terms that are lists of three elements.
Leaves(domain) == {domain[i] : i \in {k \in 1..Len(domain) :
                                         domain[k].t = "seq" /\ domain[k].len = 3}}

\* The path walks to-one relations to a field that is not stored.
NonStored(model, path) ==
    ResolveParts(model, Split(path)).ok /\ ~ResolveParts(model, Split(path)).field.store

\* Paths a validator step filters, aggregates or groups on.
StepRefs(step) ==
    {t.field : t \in Leaves(step.domain)}
    \cup {step.aggregations[i].field : i \in 1..Len(step.aggregations)}
    \cup {step.group_by[i] : i \in 1..Len(step.group_by)}

\* Paths a service plan filters, aggregates or groups on.
PlanRefs(plan) ==
    {t.field : t \in Leaves(plan.domain)}
    \cup {plan.aggregations[i].field : i \in 1..Len(plan.aggregations)}
    \cup {plan.group_by[i].field : i \in 1..Len(plan.group_by)}

\* C11: a plan that filters, aggregates or groups on a non-stored field is
\* not accepted: validate answers valid = false with an error naming the
\* field, validate_and_normalize_plan raises, and the tool gives neither a
\* page nor an export job for it.
C11_ComputedRejected ==
    /\ (call.op = "validate" /\ call.env.can_read) =>
          \A i \in 1..Len(call.plan.steps) :
             \A path \in StepRefs(call.plan.steps[i]) :
                (call.plan.steps[i].model \in Models
                 /\ NonStored(call.plan.steps[i].model, path)) =>
                   /\ ~ret.valid
                   /\ \E k \in 1..Len(ret.errors) : ret.errors[k].field = path
    /\ (call.op = "normalize" /\ call.plan.target_model \in Models) =>
          \A path \in PlanRefs(call.plan) :
             NonStored(call.plan.target_model, path) => IsError(ret)
    /\ (call.op = "execute" /\ call.params.query_plan.target_model \in Models) =>
          \A path \in PlanRefs(call.params.query_plan) :
             NonStored(call.params.query_plan.target_model, path) => IsError(ret)

\* A connective of the fixed set, or a (field, operator, value) triple
\* whose operator is in the allowlist `ops`.
GoodTerm(t, ops) ==
    \/ t.t = "str" /\ t.s \in ALLOWED_LOGICAL
    \/ t.t = "seq" /\ t.len = 3 /\ t.op \in ops

\* C12: a plan is accepted (valid = true from validate, a plan from
\* validate_and_normalize_plan) only if every filter term is a connective
\* of the fixed set or a triple with an allowlisted operator.
C12_OnlyAllowedTerms ==
    /\ (call.op = "validate" /\ ret.valid) =>
          \A i \in 1..Len(call.plan.steps) :
             \A k \in 1..Len(call.plan.steps[i].domain) :
                GoodTerm(call.plan.steps[i].domain[k], ALLOWED_OPS)
    /\ (call.op = "normalize" /\ ret.kind \in {"plan", "again"}) =>
          \A k \in 1..Len(call.plan.domain) :
             GoodTerm(call.plan.domain[k], ALLOWED_DOMAIN_OPERATORS)

\* Every field path a service plan holds, section by section.
PlanPaths(plan) ==
    PlanRefs(plan)
    \cup {plan.fields[i].name : i \in 1..Len(plan.fields)}
    \cup {plan.order_by[i].field : i \in 1..Len(plan.order_by)}

\* C13: every field path of a plan validate_and_normalize_plan returned,
\* in filter terms, fields, aggregations, group_by and order_by, resolves
\* through _resolve_field on the target entity.
C13_AllPathsResolve ==
    (call.op = "normalize" /\ ret.kind = "plan") =>
       \A path \in PlanPaths(ret.plan) :
          ResolveField(ret.plan.target_model, path).ok

\* Number of segments of a path.
Depth(path) == Len(Split(path))

\* Paths a validator step hands to _field_exists.
StepLookups(step) ==
    {step.domain[i].field : i \in {k \in 1..Len(step.domain) :
                                      ~SkipsCond(step.domain[k])}}
    \cup {step.fields[i] : i \in 1..Len(step.fields)}
    \cup {step.group_by[i] : i \in 1..Len(step.group_by)}

\* Paths the service hands to _resolve_field.
PlanLookups(plan) ==
    PlanRefs(plan) \cup {plan.fields[i].name : i \in 1..Len(plan.fields)}

\* C14: a path of more than MAX_DEPTH segments is rejected wherever a
\* path is resolved, by the service and by the plan validator, and the
\* two resolvers accept the same paths.
C14_DepthEverywhere ==
    /\ (call.op = "validate" /\ call.env.can_read) =>
          \A i \in 1..Len(call.plan.steps) :
             \A path \in StepLookups(call.plan.steps[i]) :
                call.plan.steps[i].model \in Models =>
                   /\ Depth(path) > MAX_DEPTH => ~ret.valid
                   /\ FieldExists(call.plan.steps[i].model, path)
                        = ResolveField(call.plan.steps[i].model, path).ok
    /\ (call.op = "normalize" /\ call.plan.target_model \in Models) =>
          \A path \in PlanLookups(call.plan) :
             Depth(path) > MAX_DEPTH => IsError(ret)

\* C15: a synchronous execution through the tool returns at most
\* pagination.limit rows, and that limit is at most 1000, for list and
\* aggregated plans, every requested mode and every row count.
C15_BoundedPage ==
    (call.op = "execute" /\ ret.kind = "page") =>
       /\ ret.rows <= ret.limit
       /\ ret.limit <= MAX_PAGE_LIMIT

\* C15 witness: a plan asking for more than 1000 rows per page is run over
\* more than 1000 rows and the page holds exactly 1000.
C15_Witness ==
    /\ call.op = "execute"
    /\ ret.kind = "page"
    /\ call.params.query_plan.pagination.limit = IntVal(MAX_PAGE_LIMIT + 1)
    /\ ret.rows = MAX_PAGE_LIMIT
    /\ ret.total > MAX_PAGE_LIMIT

\* C16: every plan validate_and_normalize_plan returns has a mode of
\* offset or cursor, a limit in 1..1000 and an offset in 0..100000.
C16_PaginationInRange ==
    (call.op = "normalize" /\ ret.kind = "plan") =>
       /\ ret.plan.pagination.mode \in {"offset", "cursor"}
       /\ ret.plan.pagination.limit.n \in 1..MAX_PAGE_LIMIT
       /\ ret.plan.pagination.offset.n \in 0..MAX_OFFSET

\* A token that is not base64 of a JSON object with a numeric exp, or
\* whose exp is before `clock`.
BadToken(c, clock) ==
    /\ ~FalsyCursor(c)
    /\ \/ c.wire # "b64"
       \/ c.body # "object"
       \/ c.exp.t = "text"
       \/ c.exp.t = "int" /\ c.exp.n < clock

\* C17: a plan whose pagination carries a malformed or expired cursor
\* token makes normalization raise a validation error, and the tool gives
\* no page for it.
C17_BadCursorRejected ==
    /\ (/\ call.op = "normalize"
        /\ call.env.boss /\ call.env.can_read /\ ~call.raised
        /\ ret.kind # "again"
        /\ BadToken(call.plan.pagination.cursor, call.at)) =>
          (IsError(ret) /\ ret.exc = "ValidationError")
    /\ (/\ call.op = "execute"
        /\ BadToken(call.params.query_plan.pagination.cursor, call.at)) =>
          ret.kind # "page"

C19_EveryRowOnce ==
    sess.open =>
       /\ ~sess.dup
       /\ ~sess.gap
       /\ (ret.kind = "page" /\ ~ret.has_more) => sess.covered = ret.total

StepPaths(step) ==
    StepLookups(step)
    \cup {step.aggregations[i].field : i \in 1..Len(step.aggregations)}

\* The answer lists an error about `path`.
Names(r, path) == \E k \in 1..Len(r.errors) : r.errors[k].field = path

\* A service plan breaks one of the rules: a filter triple with an
\* operator outside the allowlist, or a path that does not resolve.
PlanViolates(plan) ==
    \/ \E t \in Leaves(plan.domain) : t.op \notin ALLOWED_DOMAIN_OPERATORS
    \/ \E path \in PlanLookups(plan) : ~ResolveField(plan.target_model, path).ok

\* C21: validation does not stop at the first failure: validate answers
\* {valid, errors, warnings} with an entry for every disallowed operator,
\* every unknown path, every non-stored field and a row count above the
\* hard ceiling, on every step, and neither it nor
\* validate_and_normalize_plan raises for a plan that breaks a rule.
C21_AllViolationsListed ==
    /\ call.op = "validate" => ret.kind = "validation"
    /\ (call.op = "validate" /\ call.env.can_read) =>
          \A i \in 1..Len(call.plan.steps) :
             LET step == call.plan.steps[i] IN
             step.model \in Models =>
                /\ \A k \in 1..Len(step.domain) :
                      (~SkipsCond(step.domain[k])
                       /\ step.domain[k].op \notin ALLOWED_OPS) =>
                         \E e \in 1..Len(ret.errors) :
                            ret.errors[e].name = step.domain[k].op
                /\ \A path \in StepPaths(step) :
                      (path # NoPath /\ ~ResolveParts(step.model, Split(path)).ok)
                         => Names(ret, path)
                /\ \A path \in StepPaths(step) :
                      NonStored(step.model, path) => Names(ret, path)
                /\ (~call.raised /\ OrmWellFormed(step.domain)
                    /\ call.est > 200000) =>
                      \E e \in 1..Len(ret.errors) :
                         ret.errors[e].text = "Estimated row count too high (%s) for %s"
    /\ (call.op = "normalize" /\ call.plan.target_model \in Models
        /\ call.env.boss /\ call.env.can_read /\ PlanViolates(call.plan))
          => ~IsError(ret)

\* The mode the thresholds give for a count of `est` rows: inline up to
\* the inline ceiling, paginated up to the paginated ceiling, an export
\* above it.
ThresholdMode(est) ==
    IF est <= INLINE_MAX_ROWS THEN "inline"
    ELSE IF est <= PAGINATED_MAX_TOTAL THEN "paginated"
    ELSE "async_export"

\* The caller asked for a preview.
AsksPreview(plan) == ~FalsyStr(plan.options.preview_only)

\* max(1, min(100, int(opts.get('preview_limit', 10) or 10))) of the
\* submitted options.
PreviewLimit(plan) ==
    Max(1, Min(100, IF FalsyVal(plan.options.preview_limit) THEN 10
                    ELSE plan.options.preview_limit.n))

\* C27: a request that leaves the mode to the service runs in the mode
\* the thresholds give for the counted rows (inline up to INLINE_MAX_ROWS,
\* paginated up to PAGINATED_MAX_TOTAL, async_export above), and a
\* preview request is answered inline with limit = preview_limit and
\* without an export job, whatever the count, the requested mode and
\* force_export.
C27_ModeByThresholds ==
    (call.op = "execute" /\ ret.kind \in {"page", "queued"}) =>
       /\ (~AsksPreview(call.params.query_plan) /\ ~call.params.force_export
           /\ call.params.mode \in {"None", "auto"})
             => ret.mode = ThresholdMode(search_count(call.env.user))
       /\ AsksPreview(call.params.query_plan) =>
             /\ ret.kind = "page"
             /\ ret.mode = "inline"
             /\ ret.limit = PreviewLimit(call.params.query_plan)
             /\ ~jobs[NewestJob].exists

\* The plan BossOpenQueryTool.execute hands to estimate_cost and
\* execute_page for the request in `call`.
GivenPlan ==
    PagedPlan(validate_and_normalize_plan(call.env, call.params.query_plan,
                                          call.at, call.raised).plan)

InRun(w, j) == proc[w].pc \in {"count", "page"} /\ proc[w].job = j

\* C30: a job is run by at most one processor: no _run_export is started
\* on a job that has left queued or that another call is running, so at
\* no moment two processes are inside _run_export of the same job.
C30_OneProcessor ==
    /\ [][\A w \in Workers :
             (proc[w].pc = "start" /\ InRun(w, proc[w].job)')
             => /\ jobs[proc[w].job].state = "queued"
                /\ \A v \in Workers \ {w} : ~InRun(v, proc[w].job)]_vars
    /\ [](\A j \in JobIds : \A w, v \in Workers :
             (InRun(w, j) /\ InRun(v, j)) => w = v)

\* ------------------------------------------------------- gateway
\* Workers holding a request, and the ones whose request ran its plan.
Serving == {t \in GwWorkers : gw.req[t].pc # "idle"}
Answering == {t \in Serving : gw.req[t].pc = "done" /\ "rows" \in DOMAIN gw.req[t].resp}

\* The payload as a cache hit hands it back.
AsCached(payload) == loads(dumps(payload))

\* C22: the payload a caller receives is the result of running the plan
\* under that caller's own rights, computed for this request or read back
\* from the cache: never one computed under another caller's rights.
C22_OwnRightsOnly ==
    \A t \in Answering :
       LET r == gw.req[t] IN
       r.resp.rows \in {orchestrator_run(r.user, r.plan),
                        AsCached(orchestrator_run(r.user, r.plan))}

\* Plans the cache may hold an entry for.
CachedPlans == {row.key[2] : row \in cache}
AskedPlans == {planner_plan(q, tier_chain[i]) : q \in Questions, i \in 1..Len(tier_chain)}

\* C23: right after set_cached(plan, payload, ttl) and as long as the
\* entry has not expired get_cached(plan) returns a payload equal to the
\* one written; it returns a miss for a plan never written and from the
\* moment expires_at is reached, so an expired payload is never returned.
C23_CacheRoundTrip ==
    /\ [][\A t \in GwWorkers :
             (gw.req[t].pc = "store" /\ gw'.req[t].pc = "done"
              /\ "rows" \in DOMAIN gw'.req[t].resp /\ now < gw.req[t].expires)
             => get_cached(cache', gw.req[t].plan, now) = gw.req[t].payload]_vars
    /\ [](\A p \in AskedPlans \ CachedPlans : get_cached(cache, p, now) = NoPayload)
    /\ [](\A row \in cache :
             /\ now >= row.expires_at => get_cached(cache, row.key[2], now) = NoPayload
             /\ now < row.expires_at =>
                   get_cached(cache, row.key[2], now) = loads(row.payload))

\* C24: the tiers are tried in the order cheap, standard, premium, no
\* tier is generated or validated after one whose candidate validated,
\* and the plan that is looked up, run and answered is the candidate of
\* that first valid tier.
C24_FirstValidTier ==
    \A t \in Serving :
       LET r == gw.req[t] IN
       /\ \A i \in 1..Len(r.trace) : r.trace[i].tier = tier_chain[i]
       /\ \A i \in 1..(Len(r.trace) - 1) : ~r.trace[i].valid
       /\ r.pc = "tier" => (r.idx = Len(r.trace) + 1 /\ r.plan = NoPlan)
       /\ r.pc \in {"lookup", "run", "search", "store"} => r.plan # NoPlan
       /\ r.plan # NoPlan =>
             /\ r.trace # <<>>
             /\ r.trace[Len(r.trace)].valid
             /\ r.plan = planner_plan(r.question, r.trace[Len(r.trace)].tier)
       /\ t \in Answering =>
             /\ r.resp.meta.query_plan = r.plan
             /\ r.resp.meta.escalation_trace = r.trace

\* C24 witness: the cheap candidate was rejected, the standard one
\* validated, and the request was answered from the standard plan.
C24_Witness ==
    \E t \in Answering :
       /\ Len(gw.req[t].trace) = 2
       /\ ~gw.req[t].trace[1].valid
       /\ gw.req[t].resp.meta.query_plan.meta.planner_tier = "standard"

\* Requests that ended without a plan: no tier's candidate validated.
Failed == {t \in Serving : gw.req[t].pc = "done" /\ gw.req[t].plan = NoPlan}

\* C25: when no tier validates, the response carries the validation
\* errors of the premium tier and an escalation trace with one entry per
\* tier tried, each naming the tier and why its candidate failed.
C25_FailureCarriesTrace ==
    \A t \in Failed :
       LET r == gw.req[t] IN
       /\ Len(r.trace) = Len(tier_chain)
       /\ \A i \in 1..Len(r.trace) :
             r.trace[i].tier = tier_chain[i] /\ r.trace[i].errors # <<>>
       /\ "error" \in DOMAIN r.resp
       /\ \A k \in 1..Len(r.trace[Len(tier_chain)].errors) :
             \E e \in 1..Len(r.resp.error.errors) :
                r.resp.error.errors[e] = r.trace[Len(tier_chain)].errors[k]
       /\ "escalation_trace" \in DOMAIN r.resp
       /\ r.resp.escalation_trace = r.trace

\* C29: two requests that miss the cache on the same plan at the same
\* time both compute, both call set_cached and both complete, and the
\* cache holds exactly one entry for the key, with one of the payloads.
C29_ConcurrentMisses ==
    /\ \A t \in Serving : gw.req[t].pc = "done" => "raised" \notin DOMAIN gw.req[t].resp
    /\ \A a, b \in cache : a.key = b.key => a = b
    /\ \A t \in Answering :
          (~gw.req[t].resp.meta.cached /\ Found(cache, gw.req[t].plan)) =>
             \E row \in cache, u \in Users :
                /\ row.key = build_key(gw.req[t].plan)
                /\ row.payload = dumps(orchestrator_run(u, gw.req[t].plan))

\* C26: at most 10 requests are inside execute_dynamic at any moment;
\* every request inside holds exactly one permit, which it gives back
\* when it leaves, whatever the outcome; a request that gets no permit
\* within the timeout is answered retry-later without having entered
\* execute_dynamic and without releasing a permit.
C26_BoundedWidgetRuns ==
    /\ [](widget.running <= _MAX_PARALLEL_WIDGET_RUNS)
    /\ [](sem >= 0 /\ sem + widget.running = _MAX_PARALLEL_WIDGET_RUNS)
    /\ [][widget'.answer = RetryLater
             => (sem' = sem /\ widget'.running = widget.running)]_vars
    /\ [][widget'.running < widget.running
             => (sem' = sem + 1 /\ widget'.answer \in Outcomes)]_vars

\* C26 witness: ten requests are inside execute_dynamic, an eleventh has
\* just been sent away with the retry-later answer and a twelfth waits.
C26_Witness ==
    /\ widget.running = _MAX_PARALLEL_WIDGET_RUNS
    /\ sem = 0
    /\ widget.answer = RetryLater
    /\ widget.waiting > 0

StatusRefs == {<<"none">>} \cup {<<by, j>> : by \in {"id", "token"}, j \in JobIds}

Next ==
    \/ \E u \in Users, kind \in PlanKinds : CreateJob(u, kind)
    \/ CronSweep
    \/ \E id \in Identities, j \in JobIds : DirectCall(id, j)
    \/ \E u \in Users, ref \in StatusRefs : boss_export_status(u, ref)
    \/ \E u \in Users, j \in JobIds : boss_export_download(u, j)
    \/ \E w \in Workers : Check(w)
    \/ \E w \in Workers : RunStart(w)
    \/ \E w \in Workers : RunCount(w)
    \/ \E w \in Workers : RunPage(w)
    \/ \E w \in Workers : Crash(w)

Spec == Init /\ [][Next]_vars

\* A process that is running a handler goes on running it.
Step(w) == Check(w) \/ RunStart(w) \/ RunCount(w) \/ RunPage(w)

\* The scheduler keeps sweeping and running processes keep stepping;
\* requests, direct calls and kills may or may not happen.
FairSpec ==
    /\ Spec
    /\ WF_vars(CronSweep)
    /\ \A w \in Workers : WF_vars(Step(w))

\* ------------------------------------------------------- plan requests
PlanInit ==
    /\ \E n \in {SmallTotal, MidTotal, LargeTotal} :
          store = [all |-> n,
                   vis |-> [u \in Users |->
                              IF u = "bob" THEN n - SmallTotal ELSE n]]
    /\ jobs = [j \in JobIds |-> AbsentJob]
    /\ proc = [w \in Workers |-> IdleProc]
    /\ crashes = 0
    /\ resp = NoResp
    /\ query = NoQuery
    /\ walk = NoWalk
    /\ lastPage = [j \in JobIds |-> -1]
    /\ overlap = FALSE
    /\ now = CURSOR_TTL_SECONDS
    /\ call = NoCall
    /\ ret = NoRet
    /\ sess = NoSess
    /\ cache = NoRows
    /\ gw = NoGw
    /\ sem = _MAX_PARALLEL_WIDGET_RUNS
    /\ widget = NoWidget

PlanNext ==
    \/ Validate
    \/ Normalize
    \/ Renormalize
    \/ Execute
    \/ FollowNext
    \/ Tick
    \/ Return

PlanSpec == PlanInit /\ [][PlanNext]_vars

\* ------------------------------------------------------- gateway requests
GwInit ==
    /\ store = [all |-> SmallTotal,
                vis |-> [u \in Users |-> IF u = "bob" THEN 0 ELSE SmallTotal]]
    /\ jobs = [j \in JobIds |-> AbsentJob]
    /\ proc = [w \in Workers |-> IdleProc]
    /\ crashes = 0
    /\ resp = NoResp
    /\ query = NoQuery
    /\ walk = NoWalk
    /\ lastPage = [j \in JobIds |-> -1]
    /\ overlap = FALSE
    /\ now = 0
    /\ call = NoCall
    /\ ret = NoRet
    /\ sess = NoSess
    /\ cache = NoRows
    /\ gw = NoGw
    /\ sem = _MAX_PARALLEL_WIDGET_RUNS
    /\ widget = NoWidget

\* One worker serves one request after the other; the validator's probe
\* finds any of the counts.
GwNext ==
    \/ \E u \in Users, q \in Questions : GwStart("w1", u, q)
    \/ \E est \in ProbeChoices : GwTier("w1", est)
    \/ GwLookup("w1")
    \/ GwRun("w1")
    \/ GwSearch("w1")
    \/ GwStore("w1")
    \/ GwReturn("w1")
    \/ GwTick
    \/ GwPurge

GwSpec == GwInit /\ [][GwNext]_vars

\* Two workers serve requests at the same time; the entity is small.
CacheNext ==
    \/ \E t \in GwWorkers, u \in Users, q \in CommonQuestions : GwStart(t, u, q)
    \/ \E t \in GwWorkers : GwTier(t, 0)
    \/ \E t \in GwWorkers : GwLookup(t)
    \/ \E t \in GwWorkers : GwRun(t)
    \/ \E t \in GwWorkers : GwSearch(t)
    \/ \E t \in GwWorkers : GwStore(t)
    \/ \E t \in GwWorkers : GwReturn(t)
    \/ GwTick
    \/ GwPurge

CacheSpec == GwInit /\ [][CacheNext]_vars

\* ------------------------------------------------------- widget requests
WidgetNext ==
    \/ WidgetRefuse
    \/ WidgetArrive
    \/ WidgetAcquire
    \/ WidgetTimeout
    \/ WidgetFinish

WidgetSpec == GwInit /\ [][WidgetNext]_vars

====
